---- MODULE Spec2Model ----
(***************************************************************************)
(* Model of the RoboBrain 2.0 chat tooling:                                *)
(*   - scripts/conversation_memory.py : ConversationMemory and             *)
(*     MultiTurnInference.ask                                              *)
(*   - scripts/pipeline_chat.py       : PipelineExecutor.execute_pipeline  *)
(*   - backend.py                     : the /api/chat handler and its      *)
(*     inference lock                                                      *)
(*   - scripts/pipeline_chat.py, scripts/smart_chat.py, backend.py : the   *)
(*     Groq decomposer and the task classifiers                            *)
(*                                                                         *)
(* Python text is modelled as a sequence of one-character strings, so that *)
(* len(), slicing and concatenation are computed as Python computes them.  *)
(* A Python None found where text is expected is the one-element sequence  *)
(* <<"None">>, which no real text equals (its element is not a character). *)
(* Image paths and task tags are atomic strings; NoneVal is Python's None. *)
(***************************************************************************)
EXTENDS Integers, Sequences, FiniteSets, TLC

VARIABLES
    memory,      \* a ConversationMemory: [turns, current_image, max_turns]
    appended,    \* history: every turn handed to turns.append, in call order
    file,        \* the JSON conversation file on disk, or NoFile
    chat_pc,     \* MultiTurnInference.ask: "idle", or "infer" while model.inference runs
    chat_call,   \* arguments of the ask call in flight
    chat_result, \* the value the last ask call returned
    last_op,     \* the ConversationMemory / ask operation that ran last
    pipeline,    \* execute_pipeline: the list of step dicts it was called with
    results,     \* execute_pipeline: its results dict
    previous_result, \* execute_pipeline: the local previous_result
    exec_pc,     \* execute_pipeline: "loop", "ask" (self.chat.ask running) or "done"
    step_i,      \* execute_pipeline: position in pipeline of the current step_info
    cur_prompt,  \* execute_pipeline: the local prompt of the current step
    injected,    \* execute_pipeline: that prompt as it was before enhancement
    attempts,    \* history: positions of the steps self.chat.ask was called for
    raised,      \* history: positions of the steps whose model.inference call raised
    model_loaded,   \* backend: the global model is not None
    cuda,           \* backend: torch.cuda.is_available()
    sessions,       \* backend: the sessions dict, session id -> object (0: no such key)
    heap,           \* backend: the memory of every MultiTurnInference object created
    inference_lock, \* backend: the request holding inference_lock, or NoHolder
    req,            \* backend: every /api/chat request: position, locals and response
    trace,          \* history: per request, the cleanups and ask calls it made
    reply,          \* backend: what the last session route call returned
    groq_op,     \* the decomposer / classifier function that ran last, or "off"
    query,       \* the query that function was called with
    completion,  \* what the Groq completion call did during that call
    decomposed,  \* the pipeline decompose returned
    classified,  \* the task the classifier returned
    context,     \* the text get_context_prompt returned last
    parse_op,    \* the coordinate parser that ran last, "call" before it ran, or "off"
    parse_task,  \* the task the parser was called with
    parse_answer, \* the answer text the parser was called with
    parse_result \* the coordinates the parser returned

memvars == <<memory, appended, file, chat_pc, chat_call, chat_result, last_op>>

pipevars ==
    <<pipeline, results, previous_result, exec_pc, step_i, cur_prompt, injected,
      attempts, raised>>

backvars == <<model_loaded, cuda, sessions, heap, inference_lock, req, trace, reply>>

groqvars == <<groq_op, query, completion, decomposed, classified>>

fnvars == <<context, parse_op, parse_task, parse_answer, parse_result>>

vars == <<memvars, pipevars, backvars, groqvars, fnvars>>

----------------------------------------------------------------------------
(* Bounds of the model *)

\* Largest max_turns a memory is configured with (stands in for the default 20).
MaxTurns == 2

\* Number of add/ask calls explored on one memory.
MaxAppends == 3

\* max_turns: int = 20, what ConversationMemory() is configured with.
DefaultMaxTurns == 20

----------------------------------------------------------------------------
(* Python values *)

NoneVal == "None"

NoneText == <<"None">>

EmptyText == << >>

Min(a, b) == IF a < b THEN a ELSE b

Max(a, b) == IF a > b THEN a ELSE b

\* Python truthiness of an optional string (None and "" are falsy).
Truthy(s) == s # NoneVal /\ s # ""

\* Python truthiness of a text (the empty text and None are falsy).
TruthyText(t) == t # EmptyText /\ t # NoneText

\* Python `a or b` on optional strings.
PyOr(a, b) == IF Truthy(a) THEN a ELSE b

\* Python s[start:] for any integer start.
PySliceFrom(s, start) ==
    LET n == Len(s)
        lo == IF start < 0 THEN Max(n + start, 0) ELSE Min(start, n)
    IN  SubSeq(s, lo + 1, n)

\* Python s[:stop] for a non-negative stop.
PySliceTo(s, stop) == SubSeq(s, 1, Min(stop, Len(s)))

\* Python str(x) of a text-or-None.
PyStr(t) == IF t = NoneText THEN <<"N", "o", "n", "e">> ELSE t

----------------------------------------------------------------------------
(* Inputs *)

Images == {"img1", "img2"}

OptImages == Images \cup {NoneVal}

Tasks == {"general", "grounding", "affordance", "trajectory", "pointing"}

\* Task tags the memory-level calls are explored with.
MemTasks == {"general", "grounding"}

\* Prompts of the memory-level calls.
MemPrompts == {<<"q">>, <<"r">>}

\* Answers the model returns to memory-level calls.
MemAnswers == {<<"a">>}

\* str(e) of the exception model.inference raises.
ErrDetails == {<<"o", "o", "m">>}

----------------------------------------------------------------------------
(* scripts/conversation_memory.py : Turn and ConversationMemory *)

\* datetime.now().isoformat() at the moment a turn is built.
Now == "now"

\* A metadata dict: the keys it has and their values.
Metadata(keys, thinking, task, output_image) ==
    [keys |-> keys, thinking |-> thinking, task |-> task, output_image |-> output_image]

EmptyDict == Metadata({}, EmptyText, NoneVal, NoneVal)

Turn(role, content, image_path, task) ==
    [role |-> role, content |-> content, image_path |-> image_path, task |-> task,
     timestamp |-> Now, metadata |-> EmptyDict]

NewMemory(max_turns) ==
    [turns |-> << >>, current_image |-> NoneVal, max_turns |-> max_turns]

\* _trim_history : self.turns = self.turns[-self.max_turns:]
TrimHistory(m) ==
    IF Len(m.turns) > m.max_turns
    THEN [m EXCEPT !.turns = PySliceFrom(m.turns, -(m.max_turns))]
    ELSE m

\* The turn add_user_turn builds.
UserTurn(m, content, image_path, task) ==
    LET cur == IF Truthy(image_path) THEN image_path ELSE m.current_image
    IN  Turn("user", content, PyOr(image_path, cur), task)

\* add_user_turn leaving current_image as it was.
AddUserTurnKeepImage(m, content, image_path, task) ==
    TrimHistory([m EXCEPT !.turns = Append(m.turns, UserTurn(m, content, image_path, task))])

add_user_turn(m, content, image_path, task) ==
    LET cur == IF Truthy(image_path) THEN image_path ELSE m.current_image
        m1  == [m EXCEPT !.current_image = cur]
    IN  TrimHistory([m1 EXCEPT !.turns = Append(m1.turns, UserTurn(m, content, image_path, task))])

\* The turn add_assistant_turn builds (Turn.task keeps its default None);
\* metadata or {} : a None and an empty dict both give {}.
AssistantTurnOf(m, content, metadata) ==
    [Turn("assistant", content, m.current_image, NoneVal) EXCEPT
        !.metadata = IF metadata.keys = {} THEN EmptyDict ELSE metadata]

\* The same, metadata being left to its default.
AssistantTurn(m, content) == AssistantTurnOf(m, content, EmptyDict)

add_assistant_turn_with(m, content, metadata) ==
    TrimHistory([m EXCEPT !.turns = Append(m.turns, AssistantTurnOf(m, content, metadata))])

add_assistant_turn(m, content) == add_assistant_turn_with(m, content, EmptyDict)

clear(m) == [m EXCEPT !.turns = << >>, !.current_image = NoneVal]

\* The dict save() builds.
SavedRecord(m) == [current_image |-> m.current_image, turns |-> m.turns]

(* JSON values, as json.dump writes the Python values of a conversation and  *)
(* json.load reads them back: None is null, a str is a string (the escapes   *)
(* of its text are not modelled), a dict is an object.                       *)

JsonNull == [json |-> "null", value |-> << >>]

JsonString(s) == [json |-> "string", value |-> s]

JsonObject(members) == [json |-> "object", value |-> members]

\* json.dump of an Optional[str] held as an atomic string, and of a text.
DumpStr(s) == IF s = NoneVal THEN JsonNull ELSE JsonString(s)

DumpText(t) == IF t = NoneText THEN JsonNull ELSE JsonString(t)

DumpMetadata(md) ==
    JsonObject([k \in md.keys |->
                  CASE k = "thinking" -> DumpText(md.thinking)
                    [] k = "task" -> DumpStr(md.task)
                    [] k = "output_image" -> DumpStr(md.output_image)])

\* The object save() writes for one turn.
DumpTurn(t) ==
    JsonObject([role |-> DumpStr(t.role), content |-> DumpText(t.content),
                image_path |-> DumpStr(t.image_path), task |-> DumpStr(t.task),
                timestamp |-> DumpStr(t.timestamp),
                metadata |-> DumpMetadata(t.metadata)])

\* json.load of a value read as an Optional[str], and as a text.
LoadStr(j) == IF j.json = "null" THEN NoneVal ELSE j.value

LoadText(j) == IF j.json = "null" THEN NoneText ELSE j.value

\* obj.get(key, default) on a decoded object.
Get(obj, key, default) ==
    IF key \in DOMAIN obj.value THEN obj.value[key] ELSE default

LoadMetadata(j) ==
    Metadata(DOMAIN j.value,
             LoadText(Get(j, "thinking", JsonString(EmptyText))),
             LoadStr(Get(j, "task", JsonNull)),
             LoadStr(Get(j, "output_image", JsonNull)))

\* The turn that is built by load() with the timestamp forgotten.
LoadTurnNoTimestamp(j) ==
    [role |-> LoadStr(j.value.role),
     content |-> LoadText(j.value.content),
     image_path |-> LoadStr(Get(j, "image_path", JsonNull)),
     task |-> LoadStr(Get(j, "task", JsonNull)),
     timestamp |-> "",
     metadata |-> LoadMetadata(Get(j, "metadata", JsonObject(<< >>)))]

\* The Turn load() builds from one object of the file.
LoadTurn(j) ==
    [role |-> LoadStr(j.value.role),
     content |-> LoadText(j.value.content),
     image_path |-> LoadStr(Get(j, "image_path", JsonNull)),
     task |-> LoadStr(Get(j, "task", JsonNull)),
     timestamp |-> LoadStr(Get(j, "timestamp", JsonString(""))),
     metadata |-> LoadMetadata(Get(j, "metadata", JsonObject(<< >>)))]

\* load(): current_image and turns are replaced by those decoded from the file.
load(m, data) ==
    [m EXCEPT !.current_image = LoadStr(data.current_image),
              !.turns = [i \in 1..Len(data.turns) |-> LoadTurn(data.turns[i])]]

\* What open() raises for a path that does not exist.
FileNotFoundError == "FileNotFoundError"

\* What t["role"] and t["content"] raise for an object without that key.
KeyError == "KeyError"

\* The object of a turn lacks a key load() reads with t[...].
LacksKey(j) == ~({"role", "content"} \subseteq DOMAIN j.value)

\* load() on a file that has such an object: current_image is assigned, then
\* the list comprehension raises and turns stays as it is.
LoadRaisesKeyError(m, f) ==
    [mem |-> [m EXCEPT !.current_image = LoadStr(f.current_image)],
     raised |-> KeyError]

\* A load that empties the memory before it opens the file.
LoadFileClearFirst(m, f) ==
    IF ~f.exists THEN [mem |-> clear(m), raised |-> FileNotFoundError]
    ELSE IF \E i \in 1..Len(f.turns) : LacksKey(f.turns[i])
    THEN LoadRaisesKeyError(m, f)
    ELSE [mem |-> load(m, f), raised |-> NoneVal]

\* load(filepath): the memory after the call and the exception it raised.
\* open() raises before anything is assigned.
LoadFile(m, f) ==
    IF ~f.exists THEN [mem |-> m, raised |-> FileNotFoundError]
    ELSE IF \E i \in 1..Len(f.turns) : LacksKey(f.turns[i])
    THEN LoadRaisesKeyError(m, f)
    ELSE [mem |-> load(m, f), raised |-> NoneVal]

----------------------------------------------------------------------------
(* scripts/conversation_memory.py : MultiTurnInference *)

InferenceErrorPrefix ==
    <<"I", "n", "f", "e", "r", "e", "n", "c", "e", " ", "e", "r", "r", "o",
      "r", ":", " ">>

NoResponseText ==
    <<"N", "o", " ", "r", "e", "s", "p", "o", "n", "s", "e", " ", "f", "r",
      "o", "m", " ", "m", "o", "d", "e", "l">>

NoImageError ==
    <<"N", "o", " ", "i", "m", "a", "g", "e", " ", "s", "e", "t", ".", " ",
      "U", "s", "e", " ", "s", "e", "t", "_", "i", "m", "a", "g", "e", "(",
      ")", " ", "o", "r", " ", "p", "r", "o", "v", "i", "d", "e", " ", "i",
      "m", "a", "g", "e", "_", "p", "a", "t", "h", ".">>

\* What a call of model.inference does: it raises, returns None, or returns
\* a dict whose "answer" is a text (or, off contract, None).
ModelRaises(detail) == [kind |-> "raise", text |-> detail]

ModelReturnsNone == [kind |-> "none", text |-> EmptyText]

ModelReturnsDict(answer) == [kind |-> "dict", text |-> answer]

\* The dict ask() returns: "error" is NoneText when the key is absent,
\* has_answer tells whether the "answer" key is present.
AskResult(error, has_answer, answer, turn_number) ==
    [error |-> error, has_answer |-> has_answer, answer |-> answer,
     turn_number |-> turn_number]

NoCall == [prompt |-> EmptyText, img |-> NoneVal, task |-> NoneVal]

NoResult == AskResult(NoneText, FALSE, EmptyText, -1)

set_image(m, image_path) == [m EXCEPT !.current_image = image_path]

\* ask(), up to the call of model.inference: either it returns at once
\* (no image) or the user turn is added and the inference call starts.
\* An ask that goes on without an image.
AskBeginWithoutImage(m, prompt, image_path, task) ==
    [returned |-> FALSE,
     mem |-> add_user_turn(m, prompt, image_path, task),
     call |-> [prompt |-> prompt, img |-> PyOr(image_path, m.current_image),
               task |-> task],
     result |-> NoResult]

AskBegin(m, prompt, image_path, task) ==
    LET img == PyOr(image_path, m.current_image)
    IN  IF ~Truthy(img)
        THEN [returned |-> TRUE, mem |-> m, call |-> NoCall,
              result |-> AskResult(NoImageError, FALSE, EmptyText, -1)]
        ELSE [returned |-> FALSE,
              mem |-> add_user_turn(m, prompt, image_path, task),
              call |-> [prompt |-> prompt, img |-> img, task |-> task],
              result |-> NoResult]

\* The except branch of ask(): drop the user turn if it is the last turn.
Rollback(m) ==
    IF Len(m.turns) > 0 /\ m.turns[Len(m.turns)].role = "user"
    THEN [m EXCEPT !.turns = SubSeq(m.turns, 1, Len(m.turns) - 1)]
    ELSE m

\* The metadata ask() stores with the answer; the results of the model carry
\* no thinking and no output image.
AskMetadata(task) ==
    Metadata({"thinking", "task", "output_image"}, EmptyText, task, NoneVal)

\* "Handle different result formats": the answer ask() takes from the result.
AnswerOf(outcome) ==
    IF outcome.kind = "none" THEN NoResponseText ELSE outcome.text

\* ask(), from the return (or raise) of model.inference to its own return.
AskEnd(m, call, outcome) ==
    IF outcome.kind = "raise"
    THEN LET msg == InferenceErrorPrefix \o outcome.text
             m1  == Rollback(m)
         IN  [mem |-> m1, result |-> AskResult(msg, TRUE, msg, Len(m1.turns))]
    ELSE LET answer == AnswerOf(outcome)
             m1     == add_assistant_turn_with(m, answer, AskMetadata(call.task))
         IN  [mem |-> m1,
              result |-> AskResult(NoneText, TRUE, answer, Len(m1.turns))]

----------------------------------------------------------------------------
(* scripts/pipeline_chat.py : PipelineExecutor._parse_coordinates *)

Digits == {"0", "1", "2", "3", "4", "5", "6", "7", "8", "9"}

DigitVal ==
    [c \in Digits |->
        CASE c = "0" -> 0 [] c = "1" -> 1 [] c = "2" -> 2 [] c = "3" -> 3
          [] c = "4" -> 4 [] c = "5" -> 5 [] c = "6" -> 6 [] c = "7" -> 7
          [] c = "8" -> 8 [] c = "9" -> 9]

\* The characters the regex class \s matches.
Spaces == {" ", "\t", "\n", "\r"}

\* \d* from position i: the position after the run of digits.
RECURSIVE DigitsEnd(_, _)
DigitsEnd(s, i) ==
    IF i <= Len(s) /\ s[i] \in Digits THEN DigitsEnd(s, i + 1) ELSE i

\* \s* from position i: the position after the run of whitespace.
RECURSIVE SpacesEnd(_, _)
SpacesEnd(s, i) ==
    IF i <= Len(s) /\ s[i] \in Spaces THEN SpacesEnd(s, i + 1) ELSE i

\* The end of the optional group (?:\.\d+)? that starts at the "." at j,
\* k being the position after the digits that follow the ".".
FractionEnd(j, k) == IF k > j + 1 THEN k ELSE j

\* \d+(?:\.\d+)? at position i, j being the position after the run of
\* digits at i: the position after the match, 0 if none.
NumberEndAfter(s, i, j) ==
    IF j = i THEN 0
    ELSE IF j <= Len(s) /\ s[j] = "." THEN FractionEnd(j, DigitsEnd(s, j + 1))
    ELSE j

\* \d+(?:\.\d+)? at position i: the position after the match, 0 if none.
NumberEnd(s, i) == NumberEndAfter(s, i, DigitsEnd(s, i))

NoMatch == [end |-> 0, groups |-> << >>]

\* A match of the rest of the list, with the group g before its groups.
WithGroup(g, rest) ==
    IF rest.end = 0 THEN NoMatch
    ELSE [end |-> rest.end, groups |-> <<g>> \o rest.groups]

RECURSIVE NumberList(_, _, _)

\* The list after its first number s[i..e-1], c being the position after
\* the whitespace that follows the number.
NumberListAfterSpace(s, i, k, e, c) ==
    IF c <= Len(s) /\ s[c] = ","
    THEN WithGroup(SubSeq(s, i, e - 1), NumberList(s, SpacesEnd(s, c + 1), k - 1))
    ELSE NoMatch

\* The list at i, e being the end of the number at i (0: no number).
NumberListFrom(s, i, k, e) ==
    IF e = 0 THEN NoMatch
    ELSE IF k = 1 THEN [end |-> e, groups |-> <<SubSeq(s, i, e - 1)>>]
    ELSE NumberListAfterSpace(s, i, k, e, SpacesEnd(s, e))

\* num(\s*,\s*num){k-1} at position i, the groups being the numbers' texts.
NumberList(s, i, k) == NumberListFrom(s, i, k, NumberEnd(s, i))

\* The match m of the number list, if the closing character follows it.
Closed(s, close, m) ==
    IF m.end # 0 /\ m.end <= Len(s) /\ s[m.end] = close
    THEN [end |-> m.end + 1, groups |-> m.groups]
    ELSE NoMatch

\* open num(\s*,\s*num){k-1} close at position i.
MatchAt(s, i, k, open, close) ==
    IF i <= Len(s) /\ s[i] = open
    THEN Closed(s, close, NumberList(s, i + 1, k))
    ELSE NoMatch

RECURSIVE FindAll(_, _, _, _, _)

\* The search from i on, m being the match at i.
FindAllFrom(s, i, k, open, close, m) ==
    IF m.end = 0 THEN FindAll(s, i + 1, k, open, close)
    ELSE <<m.groups>> \o FindAll(s, m.end, k, open, close)

\* The positions from i on that hold the character open.
OpenPositions(s, i, open) == {j \in i..Len(s) : s[j] = open}

\* The first of them (a match can start nowhere else), Len(s) + 1 if none.
NextOpen(s, i, open) ==
    IF OpenPositions(s, i, open) = {} THEN Len(s) + 1
    ELSE CHOOSE j \in OpenPositions(s, i, open) :
            \A h \in OpenPositions(s, i, open) : j <= h

\* The search from the candidate position j on.
FindAllAt(s, j, k, open, close) ==
    IF j > Len(s) THEN << >>
    ELSE FindAllFrom(s, j, k, open, close, MatchAt(s, j, k, open, close))

\* re.findall: the groups of the non-overlapping matches, left to right.
FindAll(s, i, k, open, close) ==
    FindAllAt(s, NextOpen(s, i, open), k, open, close)

\* Decimal places kept of a float (coordinates are held in units of 1/Scale).
Scale == 100

RECURSIVE IntOfDigits(_)
IntOfDigits(d) ==
    IF d = << >> THEN 0
    ELSE 10 * IntOfDigits(SubSeq(d, 1, Len(d) - 1)) + DigitVal[d[Len(d)]]

\* The fraction digits .d1d2... in units of 1/Scale (digits past the second
\* are dropped).
FracOfDigits(d) ==
    LET d1 == IF Len(d) >= 1 THEN DigitVal[d[1]] ELSE 0
        d2 == IF Len(d) >= 2 THEN DigitVal[d[2]] ELSE 0
    IN  10 * d1 + d2

\* float(t), j being the position after the integer digits of t.
PyFloatAt(t, j) ==
    Scale * IntOfDigits(SubSeq(t, 1, j - 1))
      + (IF j <= Len(t) THEN FracOfDigits(SubSeq(t, j + 1, Len(t))) ELSE 0)

\* float(text) of a text matched by \d+(?:\.\d+)?, in units of 1/Scale.
PyFloat(t) == PyFloatAt(t, DigitsEnd(t, 1))

\* The tuple of floats of one match.
Floats(groups) == [i \in 1..Len(groups) |-> PyFloat(groups[i])]

\* [(float(x), float(y), ...) for x, y, ... in matches]
FloatTuples(matches) == [i \in 1..Len(matches) |-> Floats(matches[i])]

\* Half-width of the box put around a point when a box was expected.
BoxHalfWidth == 30

\* (cx - 30, cy - 30, cx + 30, cy + 30)
BoxAround(c) ==
    <<c[1] - BoxHalfWidth * Scale, c[2] - BoxHalfWidth * Scale,
      c[1] + BoxHalfWidth * Scale, c[2] + BoxHalfWidth * Scale>>

\* "Fallback: points to bbox"
PointBoxes(matches) == [i \in 1..Len(matches) |-> BoxAround(Floats(matches[i]))]

\* The matches of the point pattern \((num)\s*,\s*(num)\).
PointMatches(answer) == FindAll(answer, 1, 2, "(", ")")

\* A grounding branch that adds the point boxes to the bounding boxes.
BoxesAndPointBoxes(answer, boxes) ==
    FloatTuples(boxes) \o PointBoxes(PointMatches(answer))

\* The affordance / grounding branch, boxes being the bounding box matches.
BoxesOrPointBoxes(answer, boxes) ==
    IF boxes # << >> THEN FloatTuples(boxes) ELSE PointBoxes(PointMatches(answer))

\* A trajectory branch that tries the parenthesized pairs first.
PointsOrPairs(answer, pairs) ==
    IF PointMatches(answer) # << >> THEN FloatTuples(PointMatches(answer))
    ELSE FloatTuples(pairs)

\* The trajectory branch, pairs being the matches of \[(num)\s*,\s*(num)\].
PairsOrPoints(answer, pairs) ==
    IF pairs # << >> THEN FloatTuples(pairs) ELSE FloatTuples(PointMatches(answer))

\* A parser that looks for points whatever the task.
ParseCoordinatesAnyTask(answer, task) ==
    IF answer = NoneText THEN << >>
    ELSE CASE task \in {"affordance", "grounding"} ->
                BoxesOrPointBoxes(answer, FindAll(answer, 1, 4, "[", "]"))
           [] task = "trajectory" ->
                PairsOrPoints(answer, FindAll(answer, 1, 2, "[", "]"))
           [] OTHER -> FloatTuples(PointMatches(answer))

\* _parse_coordinates: the list of coordinates, or << >> for None.
ParseCoordinates(answer, task) ==
    IF answer = NoneText THEN << >>
    ELSE CASE task = "pointing" -> FloatTuples(PointMatches(answer))
           [] task \in {"affordance", "grounding"} ->
                BoxesOrPointBoxes(answer, FindAll(answer, 1, 4, "[", "]"))
           [] task = "trajectory" ->
                PairsOrPoints(answer, FindAll(answer, 1, 2, "[", "]"))
           [] OTHER -> << >>

----------------------------------------------------------------------------
(* scripts/pipeline_chat.py : PipelineExecutor, texts and results dict *)

Placeholder ==
    <<"{", "p", "r", "e", "v", "i", "o", "u", "s", "_", "r", "e", "s", "u",
      "l", "t", "}">>

ContextOpen ==
    <<" ", "(", "C", "o", "n", "t", "e", "x", "t", ":", " ">>

ErrorPrefix ==
    <<"E", "r", "r", "o", "r", ":", " ">>

\* str(e) of the TypeError that answer[:300] raises on a None answer.
NoneTypeError ==
    <<"'", "N", "o", "n", "e", "T", "y", "p", "e", "'", " ", "o", "b", "j",
      "e", "c", "t", " ", "i", "s", " ", "n", "o", "t", " ", "s", "u", "b",
      "s", "c", "r", "i", "p", "t", "a", "b", "l", "e">>

NoResultsText ==
    <<"N", "o", " ", "r", "e", "s", "u", "l", "t", "s", " ", "a", "v", "a",
      "i", "l", "a", "b", "l", "e", ".">>

StepWord ==
    <<"S", "t", "e", "p", " ">>

TaskText ==
    [t \in Tasks |->
        CASE t = "general" ->
               <<"g", "e", "n", "e", "r", "a", "l">>
          [] t = "grounding" ->
               <<"g", "r", "o", "u", "n", "d", "i", "n", "g">>
          [] t = "affordance" ->
               <<"a", "f", "f", "o", "r", "d", "a", "n", "c", "e">>
          [] t = "trajectory" ->
               <<"t", "r", "a", "j", "e", "c", "t", "o", "r", "y">>
          [] t = "pointing" ->
               <<"p", "o", "i", "n", "t", "i", "n", "g">>]
\* Characters of previous_result appended as context, and of an answer kept
\* in the combined summary.
ContextLimit == 200

\* Prompts of trajectory steps shorter than this are enhanced.
EnhanceLimit == 80

\* step_info has no "step" key.
NoStep == -1

\* results as execute_pipeline initialises it.
NewResults ==
    [steps |-> << >>, final_answer |-> EmptyText, visualizations |-> << >>,
     success |-> TRUE]

\* No pipeline is running.
PipeOff ==
    /\ pipeline = << >>
    /\ results = NewResults
    /\ previous_result = NoneText
    /\ exec_pc = "off"
    /\ step_i = 0
    /\ cur_prompt = EmptyText
    /\ injected = EmptyText
    /\ attempts = << >>
    /\ raised = {}

----------------------------------------------------------------------------
(* backend.py : the state of the Flask process *)

\* Number of /api/chat requests in flight together.
NumRequests == 2

Reqs == 1..NumRequests

SessionIds == {"s1", "s2"}

\* inference_lock is free.
NoHolder == 0

\* sessions has no such key.
NoObject == 0

\* request.json of a call that carries no JSON body (or an empty one).
NoData ==
    [present |-> FALSE, session_id |-> NoneVal, sessionId |-> NoneVal,
     message |-> NoneText, image |-> NoneVal, task |-> "general"]

\* request.json of a call with a body; absent keys are NoneVal / NoneText,
\* an absent "task" is its default "general".
ChatData(session_id, sessionId, message, image, task) ==
    [present |-> TRUE, session_id |-> session_id, sessionId |-> sessionId,
     message |-> message, image |-> image, task |-> task]

\* A jsonify(...) response: status, the "error" text (NoneText: no such key),
\* the dict ask() returned (NoResult: none), and the "task" and
\* "task_source" keys.
Response(status, error, result, task, task_source) ==
    [status |-> status, error |-> error, result |-> result, task |-> task,
     task_source |-> task_source]

NoResponse == Response(0, NoneText, NoResult, NoneVal, NoneVal)

\* A request and the locals of its chat() call. exit tells how the with
\* block was left: "normal", "return", "exception", or "none" so far.
Request(pc, data, task, chat_session, exit, response) ==
    [pc |-> pc, data |-> data, task |-> task, chat_session |-> chat_session,
     exit |-> exit, response |-> response]

NewRequest == Request("start", NoData, NoneVal, NoObject, "none", NoResponse)

\* What a session route returned: the route, the session id in its URL, the
\* HTTP status, the "error" text (NoneText: no such key), the "status" and
\* "session_id" keys (NoneVal: no such key) and, for /api/history, the list.
Reply(route, session_id, status, error, state, created, history) ==
    [route |-> route, session_id |-> session_id, status |-> status,
     error |-> error, state |-> state, created |-> created, history |-> history]

NoReply == Reply("none", NoneVal, 0, NoneText, NoneVal, NoneVal, << >>)

\* The backend is not running.
BackOff ==
    /\ model_loaded = FALSE
    /\ cuda = FALSE
    /\ sessions = [s \in SessionIds |-> NoObject]
    /\ heap = << >>
    /\ inference_lock = NoHolder
    /\ req = [r \in Reqs |-> Request("off", NoData, NoneVal, NoObject, "none", NoResponse)]
    /\ trace = [r \in Reqs |-> << >>]
    /\ reply = NoReply

----------------------------------------------------------------------------
(* State of the Groq decomposer and classifiers *)

\* What a Groq completion call did: it raised, or it returned a message whose
\* content is None, or one whose content is the given text.
CompletionRaises == [kind |-> "raise", content |-> << >>]

CompletionNone == [kind |-> "none", content |-> << >>]

CompletionReturns(content) == [kind |-> "content", content |-> content]

NoCompletion == [kind |-> "off", content |-> << >>]

\* No decomposer or classifier function is called.
GroqOff ==
    /\ groq_op = "off"
    /\ query = EmptyText
    /\ completion = NoCompletion
    /\ decomposed = << >>
    /\ classified = NoneVal

\* get_context_prompt and the coordinate parsers have not been called.
FnOff ==
    /\ context = EmptyText
    /\ parse_op = "off"
    /\ parse_task = NoneVal
    /\ parse_answer = EmptyText
    /\ parse_result = << >>

----------------------------------------------------------------------------
(* One ConversationMemory / MultiTurnInference driven call by call *)

NoFile == [exists |-> FALSE, current_image |-> JsonNull, turns |-> << >>]

\* The file json.dump writes for the dict save() built.
FileOf(record) ==
    [exists |-> TRUE, current_image |-> DumpStr(record.current_image),
     turns |-> [i \in 1..Len(record.turns) |-> DumpTurn(record.turns[i])]]

\* A conversation file that was not written by this memory: n user turns.
ExternalFile(n) ==
    FileOf([current_image |-> "img1",
            turns |-> [i \in 1..n |-> Turn("user", <<"q">>, "img1", "general")]])

\* Files found on disk at start: none, or an external one of up to
\* MaxTurns + 1 turns.
InitialFiles == {NoFile} \cup {ExternalFile(n) : n \in 0..(MaxTurns + 1)}

AddUserTurn(content, image_path, task) ==
    /\ chat_pc = "idle"
    /\ Len(appended) < MaxAppends
    /\ memory' = add_user_turn(memory, content, image_path, task)
    /\ appended' = Append(appended, UserTurn(memory, content, image_path, task))
    /\ last_op' = "add_user_turn"
    /\ UNCHANGED <<file, chat_pc, chat_call, chat_result>>
    /\ UNCHANGED <<pipevars, backvars, groqvars, fnvars>>

AddAssistantTurn(content) ==
    /\ chat_pc = "idle"
    /\ Len(appended) < MaxAppends
    /\ memory' = add_assistant_turn(memory, content)
    /\ appended' = Append(appended, AssistantTurn(memory, content))
    /\ last_op' = "add_assistant_turn"
    /\ UNCHANGED <<file, chat_pc, chat_call, chat_result>>
    /\ UNCHANGED <<pipevars, backvars, groqvars, fnvars>>

Clear ==
    /\ chat_pc = "idle"
    /\ memory' = clear(memory)
    /\ appended' = << >>
    /\ last_op' = "clear"
    /\ UNCHANGED <<file, chat_pc, chat_call, chat_result>>
    /\ UNCHANGED <<pipevars, backvars, groqvars, fnvars>>

Save ==
    /\ chat_pc = "idle"
    /\ file' = FileOf(SavedRecord(memory))
    /\ last_op' = "save"
    /\ UNCHANGED <<memory, appended, chat_pc, chat_call, chat_result>>
    /\ UNCHANGED <<pipevars, backvars, groqvars, fnvars>>

Load ==
    /\ chat_pc = "idle"
    /\ LoadFile(memory, file).raised = NoneVal
    /\ memory' = LoadFile(memory, file).mem
    /\ appended' = LoadFile(memory, file).mem.turns
    /\ last_op' = "load"
    /\ UNCHANGED <<file, chat_pc, chat_call, chat_result>>
    /\ UNCHANGED <<pipevars, backvars, groqvars, fnvars>>

\* open() raises FileNotFoundError before anything is assigned.
LoadMissing ==
    /\ chat_pc = "idle"
    /\ LoadFile(memory, file).raised = FileNotFoundError
    /\ memory' = LoadFile(memory, file).mem
    /\ last_op' = "load_failed"
    /\ UNCHANGED <<appended, file, chat_pc, chat_call, chat_result>>
    /\ UNCHANGED <<pipevars, backvars, groqvars, fnvars>>

\* load() of a file with a turn object that lacks "role" or "content".
LoadDefective ==
    /\ chat_pc = "idle"
    /\ LoadFile(memory, file).raised = KeyError
    /\ memory' = LoadFile(memory, file).mem
    /\ last_op' = "load_failed"
    /\ UNCHANGED <<appended, file, chat_pc, chat_call, chat_result>>
    /\ UNCHANGED <<pipevars, backvars, groqvars, fnvars>>

SetImage(image_path) ==
    /\ chat_pc = "idle"
    /\ memory' = set_image(memory, image_path)
    /\ last_op' = "set_image"
    /\ UNCHANGED <<appended, file, chat_pc, chat_call, chat_result>>
    /\ UNCHANGED <<pipevars, backvars, groqvars, fnvars>>

AskStart(prompt, image_path, task) ==
    /\ chat_pc = "idle"
    /\ Len(appended) < MaxAppends
    /\ LET b == AskBegin(memory, prompt, image_path, task)
       IN  /\ memory' = b.mem
           /\ chat_call' = b.call
           /\ IF b.returned
              THEN /\ chat_pc' = "idle"
                   /\ chat_result' = b.result
                   /\ appended' = appended
                   /\ last_op' = "ask_no_image"
              ELSE /\ chat_pc' = "infer"
                   /\ chat_result' = chat_result
                   /\ appended' = Append(appended, UserTurn(memory, prompt, image_path, task))
                   /\ last_op' = "ask_started"
    /\ UNCHANGED file
    /\ UNCHANGED <<pipevars, backvars, groqvars, fnvars>>

AskFinish(outcome) ==
    /\ chat_pc = "infer"
    /\ LET e == AskEnd(memory, chat_call, outcome)
       IN  /\ memory' = e.mem
           /\ chat_result' = e.result
           /\ appended' =
                IF outcome.kind = "raise"
                THEN (IF e.mem = memory THEN appended
                      ELSE SubSeq(appended, 1, Len(appended) - 1))
                ELSE Append(appended,
                            AssistantTurnOf(memory, AnswerOf(outcome),
                                            AskMetadata(chat_call.task)))
           /\ last_op' = IF outcome.kind = "raise" THEN "ask_rolled_back" ELSE "ask_answered"
    /\ chat_pc' = "idle"
    /\ chat_call' = NoCall
    /\ UNCHANGED file
    /\ UNCHANGED <<pipevars, backvars, groqvars, fnvars>>

\* Results model.inference gives to the calls of this memory.
MemOutcomes ==
    {ModelRaises(d) : d \in ErrDetails} \cup {ModelReturnsDict(a) : a \in MemAnswers}

(* A memory with any max_turns, driven by add calls only *)

InitAdd ==
    /\ memory \in {NewMemory(mt) : mt \in 0..MaxTurns}
    /\ appended = << >>
    /\ file = NoFile
    /\ chat_pc = "idle"
    /\ chat_call = NoCall
    /\ chat_result = NoResult
    /\ last_op = "init"
    /\ PipeOff
    /\ GroqOff
    /\ FnOff
    /\ BackOff

NextAdd ==
    \/ \E c \in MemPrompts, i \in OptImages, t \in MemTasks : AddUserTurn(c, i, t)
    \/ \E c \in MemAnswers : AddAssistantTurn(c)

SpecAdd == InitAdd /\ [][NextAdd]_vars

(* The memory of a MultiTurnInference (max_turns is the default), every operation *)

InitMem ==
    /\ memory = NewMemory(MaxTurns)
    /\ appended = << >>
    /\ file \in InitialFiles
    /\ chat_pc = "idle"
    /\ chat_call = NoCall
    /\ chat_result = NoResult
    /\ last_op = "init"
    /\ PipeOff
    /\ GroqOff
    /\ FnOff
    /\ BackOff

NextMem ==
    \/ \E i \in {NoneVal, "img2"} : AddUserTurn(<<"q">>, i, "general")
    \/ \E c \in MemAnswers : AddAssistantTurn(c)
    \/ Clear
    \/ Save
    \/ Load
    \/ LoadMissing
    \/ SetImage("img1")
    \/ \E i \in {NoneVal, "img2"} : AskStart(<<"r">>, i, "grounding")
    \/ \E o \in MemOutcomes : AskFinish(o)

SpecMem == InitMem /\ [][NextMem]_vars

----------------------------------------------------------------------------
(* Claims about ConversationMemory *)

\* The last min(n, k) elements of s.
LastN(s, k) == SubSeq(s, Len(s) - Min(Len(s), k) + 1, Len(s))

\* C1: after every add_user_turn / add_assistant_turn call, for any configured
\* max_turns, len(turns) <= max_turns and turns is the last
\* min(n, max_turns) appended turns in their original order.
C1_TurnsAreLastAppended ==
    /\ Len(memory.turns) <= memory.max_turns
    /\ memory.turns = LastN(appended, memory.max_turns)

\* C2: len(turns) <= max_turns holds after every operation that mutates the
\* memory: the adds, load, clear and the rollback of a failed ask.
C2_BoundAfterEveryMutation ==
    Len(memory.turns) <= memory.max_turns

----------------------------------------------------------------------------
(* scripts/pipeline_chat.py : PipelineExecutor.execute_pipeline *)

\* Largest number of steps of a pipeline.
MaxSteps == 2

\* pat in s
Contains(s, pat) ==
    \E i \in 1..(Len(s) - Len(pat) + 1) : SubSeq(s, i, i + Len(pat) - 1) = pat

\* s.replace(pat, rep), pat being non-empty: every occurrence, left to right.
RECURSIVE Replace(_, _, _)
Replace(s, pat, rep) ==
    IF Len(s) < Len(pat) THEN s
    ELSE IF SubSeq(s, 1, Len(pat)) = pat
         THEN rep \o Replace(SubSeq(s, Len(pat) + 1, Len(s)), pat, rep)
         ELSE <<s[1]>> \o Replace(SubSeq(s, 2, Len(s)), pat, rep)

\* t.strip(chars)
RECURSIVE Strip(_, _)
Strip(t, chars) ==
    IF t # << >> /\ t[1] \in chars THEN Strip(SubSeq(t, 2, Len(t)), chars)
    ELSE IF t # << >> /\ t[Len(t)] \in chars THEN Strip(SubSeq(t, 1, Len(t) - 1), chars)
    ELSE t

\* str(n) of a natural number.
RECURSIVE IntToText(_)
IntToText(n) ==
    LET d == CHOOSE c \in Digits : DigitVal[c] = n % 10
    IN  IF n < 10 THEN <<d>> ELSE IntToText(n \div 10) \o <<d>>

\* sep.join(parts)
RECURSIVE Join(_, _)
Join(parts, sep) ==
    IF parts = << >> THEN EmptyText
    ELSE IF Len(parts) = 1 THEN parts[1]
    ELSE parts[1] \o sep \o Join(Tail(parts), sep)

\* What the decomposer's completion call does for enhance_trajectory_prompt.
EnhanceRaises == [kind |-> "raise", text |-> EmptyText]

EnhanceReturns(t) == [kind |-> "text", text |-> t]

\* The enhancement with the returned text taken whatever its length.
EnhanceAlwaysTaken(original_prompt, enh) ==
    IF enh.kind = "raise" THEN original_prompt
    ELSE Strip(Strip(enh.text, Spaces), {"\"", "'"})

\* GroqPipelineDecomposer.enhance_trajectory_prompt
enhance_trajectory_prompt(original_prompt, enh) ==
    IF enh.kind = "raise" THEN original_prompt
    ELSE LET enhanced == Strip(Strip(enh.text, Spaces), {"\"", "'"})
         IN  IF Len(enhanced) > Len(original_prompt) THEN enhanced ELSE original_prompt

\* The injection with the whole previous result appended as context.
InjectPreviousWhole(step_info, prev) ==
    IF step_info.use_previous /\ TruthyText(prev)
    THEN LET replaced == Replace(step_info.prompt, Placeholder, PyStr(prev))
         IN  IF ~Contains(step_info.prompt, Placeholder)
             THEN replaced \o ContextOpen \o prev \o <<")">>
             ELSE replaced
    ELSE step_info.prompt

\* "Inject previous result into prompt if needed"
InjectPrevious(step_info, prev) ==
    IF step_info.use_previous /\ TruthyText(prev)
    THEN LET replaced == Replace(step_info.prompt, Placeholder, PyStr(prev))
         IN  IF ~Contains(step_info.prompt, Placeholder)
             THEN replaced \o ContextOpen \o PySliceTo(prev, ContextLimit) \o <<")">>
             ELSE replaced
    ELSE step_info.prompt

\* "Enhance trajectory prompts for better results" (self.decomposer is set).
EnhanceStep(task, prompt, enh) ==
    IF task = "trajectory" /\ Len(prompt) < EnhanceLimit
    THEN enhance_trajectory_prompt(prompt, enh)
    ELSE prompt

\* step_info.get("step", len(results["steps"]) + 1)
StepNum(step_info, steps) ==
    IF step_info.step = NoStep THEN Len(steps) + 1 ELSE step_info.step

\* A step_result dict. Absent keys: answer and error are NoneText,
\* coordinates and visualization are << >>.
StepResult(step_num, task, prompt, answer, error, success, coords, vis) ==
    [step |-> step_num, task |-> task, prompt |-> prompt, answer |-> answer,
     error |-> error, success |-> success, coordinates |-> coords,
     visualization |-> vis]

\* str(output_path) of _visualize_step (<< >>: no image was produced).
VisPath(step_num, task) == <<"step", step_num, task>>

VisualTasks == {"grounding", "affordance", "trajectory", "pointing"}

\* The step recorded with an image whenever one was rendered, geometry or
\* not.
StepSucceededAlwaysDrawn(step_num, task, prompt, answer, coords, rendered) ==
    [step_result |->
        StepResult(step_num, task, prompt, answer, NoneText, TRUE, coords,
                   IF rendered THEN VisPath(step_num, task) ELSE << >>),
     previous |-> answer,
     failed |-> FALSE]

\* The step recorded when the try body runs to its end, coords being what
\* _parse_coordinates returned; rendered tells whether _visualize_step
\* produces an image.
StepSucceeded(step_num, task, prompt, answer, coords, rendered) ==
    [step_result |->
        StepResult(step_num, task, prompt, answer, NoneText, TRUE, coords,
                   IF task \in VisualTasks /\ coords # << >> /\ rendered
                   THEN VisPath(step_num, task) ELSE << >>),
     previous |-> answer,
     failed |-> FALSE]

\* The failed step with the bare detail handed on as previous result.
StepFailedBareDetail(step_num, task, prompt, detail) ==
    [step_result |->
        StepResult(step_num, task, prompt, NoneText, detail, FALSE, << >>, << >>),
     previous |-> detail,
     failed |-> TRUE]

\* The step recorded by the except branch, detail being str(e).
StepFailed(step_num, task, prompt, detail) ==
    [step_result |->
        StepResult(step_num, task, prompt, NoneText, detail, FALSE, << >>, << >>),
     previous |-> ErrorPrefix \o detail,
     failed |-> TRUE]

\* The try statement from answer = result.get("answer", "") on: a None
\* answer makes answer[:300] raise TypeError.
StepOfAnswer(step_num, task, prompt, answer, rendered) ==
    IF answer = NoneText
    THEN StepFailed(step_num, task, prompt, NoneTypeError)
    ELSE StepSucceeded(step_num, task, prompt, answer,
                       ParseCoordinates(answer, task), rendered)

\* The body of the try statement after self.chat.ask has returned result,
\* with its except branch: the step_result appended, the new previous_result
\* and whether the step failed.
StepOutcome(result, step_num, task, prompt, rendered) ==
    StepOfAnswer(step_num, task, prompt,
                 IF result.has_answer THEN result.answer ELSE EmptyText, rendered)

\* The summary built from every step, without the case of one success.
CombineResultsAlwaysSummary(steps) ==
    IF steps = << >> THEN NoResultsText
    ELSE LET successful_steps == SelectSeq(steps, LAMBDA st : st.success)
             Line(st) == StepWord \o IntToText(st.step) \o <<" ", "(">>
                           \o TaskText[st.task] \o <<")", ":", " ">>
                           \o PySliceTo(st.answer, ContextLimit)
         IN  Join([i \in 1..Len(successful_steps) |-> Line(successful_steps[i])],
                  <<"\n", "\n">>)

\* _combine_results
CombineResults(steps) ==
    IF steps = << >> THEN NoResultsText
    ELSE LET successful_steps == SelectSeq(steps, LAMBDA st : st.success)
             Line(st) == StepWord \o IntToText(st.step) \o <<" ", "(">>
                           \o TaskText[st.task] \o <<")", ":", " ">>
                           \o PySliceTo(st.answer, ContextLimit)
         IN  IF Len(successful_steps) = 1 THEN successful_steps[1].answer
             ELSE Join([i \in 1..Len(successful_steps) |-> Line(successful_steps[i])],
                       <<"\n", "\n">>)

\* results after one pass of the loop body, with the assignment
\* results["success"] = False of the except branch left out.
RecordStepKeepFlag(res, out) ==
    [res EXCEPT
        !.steps = Append(res.steps, out.step_result),
        !.visualizations =
            IF out.step_result.visualization # << >>
            THEN Append(res.visualizations, out.step_result.visualization)
            ELSE res.visualizations]

\* results after one pass of the loop body.
RecordStep(res, out) ==
    [res EXCEPT
        !.steps = Append(res.steps, out.step_result),
        !.visualizations =
            IF out.step_result.visualization # << >>
            THEN Append(res.visualizations, out.step_result.visualization)
            ELSE res.visualizations,
        !.success = IF out.failed THEN FALSE ELSE res.success]

\* The call execute_pipeline(pipeline): results and previous_result are
\* initialised; with no step the loop is skipped and the result is returned.
ExecutePipeline(p) ==
    /\ exec_pc = "off"
    /\ chat_pc = "idle"
    /\ pipeline' = p
    /\ previous_result' = NoneText
    /\ step_i' = IF p = << >> THEN 0 ELSE 1
    /\ results' = IF p = << >>
                  THEN [NewResults EXCEPT !.final_answer = CombineResults(<< >>)]
                  ELSE NewResults
    /\ exec_pc' = IF p = << >> THEN "done" ELSE "loop"
    /\ UNCHANGED <<cur_prompt, injected, attempts, raised, memvars, backvars, groqvars, fnvars>>

\* The end of a pass of the loop in an executor that stops at the first
\* failed step.
FinishStepAbortOnFailure(result, prompt, rendered) ==
    \E out \in {StepOutcome(result, StepNum(pipeline[step_i], results.steps),
                            pipeline[step_i].task, prompt, rendered)} :
      \E res \in {RecordStep(results, out)} :
        /\ previous_result' = out.previous
        /\ chat_result' = result
        /\ IF step_i = Len(pipeline) \/ out.failed
           THEN /\ results' = [res EXCEPT !.final_answer = CombineResults(res.steps)]
                /\ exec_pc' = "done"
                /\ step_i' = step_i
           ELSE /\ results' = res
                /\ exec_pc' = "loop"
                /\ step_i' = step_i + 1

\* The end of a pass of the loop, result being what self.chat.ask returned:
\* the step is recorded and the loop goes on, or ends with _combine_results.
FinishStep(result, prompt, rendered) ==
    \E out \in {StepOutcome(result, StepNum(pipeline[step_i], results.steps),
                            pipeline[step_i].task, prompt, rendered)} :
      \E res \in {RecordStep(results, out)} :
        /\ previous_result' = out.previous
        /\ chat_result' = result
        /\ IF step_i = Len(pipeline)
           THEN /\ results' = [res EXCEPT !.final_answer = CombineResults(res.steps)]
                /\ exec_pc' = "done"
                /\ step_i' = step_i
           ELSE /\ results' = res
                /\ exec_pc' = "loop"
                /\ step_i' = step_i + 1

\* One pass of the loop up to the call of model.inference inside
\* self.chat.ask (which returns at once when no image is set).
PipeStepBegin(enh) ==
    /\ exec_pc = "loop"
    /\ \E prompt \in {EnhanceStep(pipeline[step_i].task,
                                  InjectPrevious(pipeline[step_i], previous_result), enh)} :
         \E b \in {AskBegin(memory, prompt, NoneVal, pipeline[step_i].task)} :
           /\ cur_prompt' = prompt
           /\ injected' = InjectPrevious(pipeline[step_i], previous_result)
           /\ attempts' = Append(attempts, step_i)
           /\ memory' = b.mem
           /\ chat_call' = b.call
           /\ IF b.returned
              THEN /\ FinishStep(b.result, prompt, FALSE)
                   /\ chat_pc' = chat_pc
              ELSE /\ chat_pc' = "infer"
                   /\ exec_pc' = "ask"
                   /\ UNCHANGED <<results, previous_result, step_i, chat_result>>
    /\ UNCHANGED <<pipeline, raised, appended, file, last_op, backvars, groqvars, fnvars>>

\* model.inference returns or raises: self.chat.ask completes and the rest
\* of the pass runs.
PipeStepEnd(outcome, rendered) ==
    /\ exec_pc = "ask"
    /\ \E e \in {AskEnd(memory, chat_call, outcome)} :
         /\ memory' = e.mem
         /\ FinishStep(e.result, cur_prompt, rendered)
    /\ chat_pc' = "idle"
    /\ chat_call' = NoCall
    /\ raised' = IF outcome.kind = "raise" THEN raised \cup {step_i} ELSE raised
    /\ UNCHANGED <<pipeline, cur_prompt, injected, attempts, appended, file, last_op, backvars, groqvars, fnvars>>

(* Inputs of the pipeline runs *)

\* A step dict as decompose builds it, without its "step" key.
StepInfo(task, prompt, use_previous) ==
    [task |-> task, prompt |-> prompt, use_previous |-> use_previous, step |-> NoStep]

StepKinds ==
    {StepInfo("general", <<"p">>, FALSE),
     StepInfo("general", <<"p", " ">> \o Placeholder, FALSE),
     StepInfo("pointing", <<"p", " ">> \o Placeholder, TRUE),
     StepInfo("trajectory", <<"p">>, TRUE)}

\* The step dicts carrying their 1-based "step" key.
Numbered(p) == [i \in 1..Len(p) |-> [p[i] EXCEPT !.step = i]]

Unnumbered == UNION {[1..n -> StepKinds] : n \in 0..MaxSteps}

Pipelines == Unnumbered \cup {Numbered(p) : p \in Unnumbered}

\* An answer of ContextLimit + 1 characters, the last one unlike the others.
LongAnswer == [i \in 1..(ContextLimit + 1) |-> IF i <= ContextLimit THEN "x" ELSE "y"]

PipeAnswers == {<<"a">>, <<"(", "1", ",", "2", ")">>, LongAnswer}

PipeOutcomes ==
    {ModelRaises(d) : d \in ErrDetails}
      \cup {ModelReturnsDict(a) : a \in PipeAnswers \cup {NoneText}}
      \cup {ModelReturnsNone}

EnhanceOutcomes ==
    {EnhanceRaises, EnhanceReturns(<<"e">>),
     EnhanceReturns(<<"\"", "m", "o", "v", "e", " ", "t", "h", "e", " ", "a", "r", "m", "\"">>)}

InitPipe ==
    /\ memory \in {set_image(NewMemory(MaxTurns), i) : i \in {NoneVal, "img1"}}
    /\ appended = << >>
    /\ file = NoFile
    /\ chat_pc = "idle"
    /\ chat_call = NoCall
    /\ chat_result = NoResult
    /\ last_op = "init"
    /\ PipeOff
    /\ GroqOff
    /\ FnOff
    /\ BackOff

NextPipe ==
    \/ \E p \in Pipelines : ExecutePipeline(p)
    \/ \E enh \in EnhanceOutcomes : PipeStepBegin(enh)
    \/ \E o \in PipeOutcomes, rendered \in BOOLEAN : PipeStepEnd(o, rendered)

SpecPipe == InitPipe /\ [][NextPipe]_vars

----------------------------------------------------------------------------
(* Claims about execute_pipeline *)

\* The "step" value execute_pipeline gives the step at position i.
StepNumAt(i) == IF pipeline[i].step = NoStep THEN i ELSE pipeline[i].step

\* C3: every step whose inference call raised is in the ledger with
\* success = false and an error detail, and the overall success flag is false.
C3_RaisedInferenceRecordedAsFailure ==
    \A i \in raised :
        /\ i <= Len(results.steps)
        /\ results.steps[i].success = FALSE
        /\ results.steps[i].error # NoneText
        /\ results.success = FALSE

\* C4: the steps are attempted one at a time in ascending position, each
\* exactly once whatever failed before, and the ledger holds one entry per
\* attempted step, in pipeline order; at the end it has one per pipeline step.
C4_EveryStepOnceInOrder ==
    /\ attempts = [i \in 1..Len(attempts) |-> i]
    /\ Len(attempts) <= Len(pipeline)
    /\ Len(results.steps) = IF exec_pc = "ask" THEN Len(attempts) - 1 ELSE Len(attempts)
    /\ \A i \in 1..Len(results.steps) :
          /\ results.steps[i].step = StepNumAt(i)
          /\ results.steps[i].task = pipeline[i].task
    /\ exec_pc = "done" => Len(results.steps) = Len(pipeline)

\* A run of at least two steps has ended; its first step failed and the
\* later ones were still executed.
C4_Witness ==
    /\ exec_pc = "done"
    /\ Len(pipeline) >= 2
    /\ ~results.steps[1].success
    /\ Len(results.steps) = Len(pipeline)
    /\ results.steps[2].success

\* C5: the overall success flag is true iff every ledger entry has
\* success = true, and the combined answer is built from the ledger in both
\* cases.
C5_SuccessIffEveryStepSucceeded ==
    /\ results.success <=> (\A i \in 1..Len(results.steps) : results.steps[i].success)
    /\ exec_pc = "done" => results.final_answer = CombineResults(results.steps)

\* A run has ended with the flag false and a combined answer that carries
\* the answer of a successful step.
C5_Witness ==
    /\ exec_pc = "done"
    /\ ~results.success
    /\ \E i \in 1..Len(results.steps) : results.steps[i].success
    /\ results.final_answer # EmptyText

\* The prompt p with the placeholder that starts after its first k
\* characters replaced by the text prev.
Substituted(p, k, prev) ==
    SubSeq(p, 1, k) \o prev \o SubSeq(p, k + Len(Placeholder) + 1, Len(p))

\* The prompt of the step about to run, as C11 describes it (for prompts
\* holding the placeholder at most once).
ExpectedInjection(step_info, prev) ==
    IF step_info.use_previous /\ prev # NoneText /\ prev # EmptyText
    THEN IF \E k \in 0..Len(step_info.prompt) :
                step_info.prompt = Substituted(step_info.prompt, k, Placeholder)
         THEN LET k == CHOOSE k \in 0..Len(step_info.prompt) :
                          step_info.prompt = Substituted(step_info.prompt, k, Placeholder)
              IN  Substituted(step_info.prompt, k, prev)
         ELSE step_info.prompt \o <<" ", "(", "C", "o", "n", "t", "e", "x", "t", ":", " ">>
                \o SubSeq(prev, 1, Min(Len(prev), ContextLimit)) \o <<")">>
    ELSE step_info.prompt

\* C11: when a step starts, its prompt is the step's prompt with the
\* placeholder replaced by the whole previous result and nothing appended, or,
\* there being no placeholder, followed by " (Context: ...)" holding the first
\* 200 characters of the previous result; with use_previous false or no
\* previous result it is the step's prompt unchanged.
C11_PreviousResultInjected ==
    [][attempts' # attempts =>
          injected' = ExpectedInjection(pipeline[step_i], previous_result)]_vars

\* A step without placeholder is running on a previous result of more than
\* 200 characters, of which its prompt holds only the first 200.
C11_Witness ==
    /\ exec_pc = "ask"
    /\ pipeline[step_i].use_previous
    /\ ~Contains(pipeline[step_i].prompt, Placeholder)
    /\ Len(previous_result) > ContextLimit
    /\ Len(injected) = Len(pipeline[step_i].prompt) + Len(ContextOpen) + ContextLimit + 1

\* C12: the previous result is that of the last step recorded alone: its
\* answer if it succeeded, with or without coordinates, "Error: <detail>" if
\* it failed; before the first step there is none.
C12_PreviousResultOfLastStep ==
    IF results.steps = << >> THEN previous_result = NoneText
    ELSE IF results.steps[Len(results.steps)].success
         THEN previous_result = results.steps[Len(results.steps)].answer
         ELSE previous_result =
                <<"E", "r", "r", "o", "r", ":", " ">>
                  \o results.steps[Len(results.steps)].error

\* A step that succeeded without coordinates was followed by a step that
\* failed, and the previous result is the failure's "Error: <detail>".
C12_Witness ==
    /\ Len(results.steps) = 2
    /\ results.steps[1].success
    /\ results.steps[1].coordinates = << >>
    /\ ~results.steps[2].success
    /\ previous_result # results.steps[1].answer
    /\ SubSeq(previous_result, 1, Len(ErrorPrefix)) = ErrorPrefix

\* The positions of the ledger's successful steps.
SuccessfulAt == {i \in 1..Len(results.steps) : results.steps[i].success}

\* "Step <n> (<task>): <first 200 characters of answer>"
SummaryEntry(st) ==
    <<"S", "t", "e", "p", " ">> \o IntToText(st.step) \o <<" ", "(">>
      \o TaskText[st.task] \o <<")", ":", " ">>
      \o SubSeq(st.answer, 1, Min(Len(st.answer), ContextLimit))

\* The entries of the successful steps among the first n of the ledger,
\* joined by blank lines.
RECURSIVE SummaryOf(_)
SummaryOf(n) ==
    IF n = 0 THEN EmptyText
    ELSE IF ~results.steps[n].success THEN SummaryOf(n - 1)
    ELSE IF \E i \in 1..(n - 1) : results.steps[i].success
         THEN SummaryOf(n - 1) \o <<"\n", "\n">> \o SummaryEntry(results.steps[n])
         ELSE SummaryEntry(results.steps[n])

\* C13: at the end of a run of at least one step, the final answer is the
\* whole answer of the successful step if exactly one step succeeded, and
\* otherwise the entries of the successful steps, in ledger order, joined by
\* blank lines; failed steps are not in it.
C13_CombinedAnswer ==
    exec_pc = "done" /\ Len(pipeline) >= 1 =>
      IF Cardinality(SuccessfulAt) = 1
      THEN \A i \in SuccessfulAt : results.final_answer = results.steps[i].answer
      ELSE results.final_answer = SummaryOf(Len(results.steps))

\* A run has ended with two successful steps, one of them with an answer of
\* more than 200 characters that the final answer holds only in part.
C13_Witness ==
    /\ exec_pc = "done"
    /\ Cardinality(SuccessfulAt) = 2
    /\ \E i \in SuccessfulAt : Len(results.steps[i].answer) > ContextLimit
    /\ \A j \in 1..Len(results.final_answer) :
          results.final_answer[j] # LongAnswer[Len(LongAnswer)]

\* The visualization references of the ledger's first n steps, in order.
RECURSIVE VisualizationsOf(_)
VisualizationsOf(n) ==
    IF n = 0 THEN << >>
    ELSE IF results.steps[n].visualization = << >> THEN VisualizationsOf(n - 1)
    ELSE Append(VisualizationsOf(n - 1), results.steps[n].visualization)

\* C14: a step has a visualization reference only if it succeeded, its task
\* is not general and coordinates were found in its answer; the list of
\* visualizations holds the references of those steps, in step order.
C14_VisualizationOnlyWithGeometry ==
    /\ \A i \in 1..Len(results.steps) :
          results.steps[i].visualization # << >> =>
            /\ results.steps[i].success
            /\ results.steps[i].task # "general"
            /\ results.steps[i].coordinates # << >>
            /\ results.steps[i].coordinates =
                  ParseCoordinates(results.steps[i].answer, results.steps[i].task)
    /\ results.visualizations = VisualizationsOf(Len(results.steps))

\* Of two steps with coordinates in their answers, one got a visualization
\* and the other (not rendered) none.
C14_Witness ==
    /\ Len(results.steps) = 2
    /\ results.steps[1].coordinates # << >>
    /\ results.steps[2].coordinates # << >>
    /\ results.steps[1].visualization = << >>
    /\ results.steps[2].visualization # << >>
    /\ Len(results.visualizations) = 1

\* C15: the enhancement of a trajectory prompt cannot fail a step. Whatever
\* the enhancement call does, the step is attempted and its prompt is at least
\* as long as the injected prompt; when the call raised or returned text that
\* is not longer than the injected prompt, the step runs with the injected
\* prompt itself, and it ends before the inference call only for want of an
\* image.
C15_EnhancementNeverFailsAStep ==
    [][\A enh \in EnhanceOutcomes :
          PipeStepBegin(enh) =>
            /\ Len(cur_prompt') >= Len(injected')
            /\ attempts' = Append(attempts, step_i)
            /\ exec_pc' # "ask" => ~Truthy(memory.current_image)
            /\ (enh.kind = "raise" \/ Len(enh.text) <= Len(injected')) =>
                  /\ cur_prompt' = injected'
                  /\ exec_pc' = "ask" => chat_call'.prompt = injected']_vars

\* A trajectory step short enough to be enhanced is at its inference call
\* with the injected prompt, context included, unchanged.
C15_Witness ==
    /\ exec_pc = "ask"
    /\ pipeline[step_i].task = "trajectory"
    /\ Len(injected) < EnhanceLimit
    /\ Len(injected) > Len(pipeline[step_i].prompt)
    /\ cur_prompt = injected
    /\ chat_call.prompt = injected

----------------------------------------------------------------------------
(* backend.py : the /api/chat handler *)

ModelNotInitialized ==
    <<"M", "o", "d", "e", "l", " ", "n", "o", "t", " ", "i", "n", "i",
      "t", "i", "a", "l", "i", "z", "e", "d">>

NoJsonData ==
    <<"N", "o", " ", "J", "S", "O", "N", " ", "d", "a", "t", "a", " ",
      "p", "r", "o", "v", "i", "d", "e", "d">>

MissingSessionId ==
    <<"M", "i", "s", "s", "i", "n", "g", " ", "s", "e", "s", "s", "i",
      "o", "n", " ", "I", "D">>

ImageNotFoundPrefix ==
    <<"I", "m", "a", "g", "e", " ", "n", "o", "t", " ", "f", "o", "u",
      "n", "d", ":", " ">>

\* The body Flask sends for an exception no handler caught.
InternalServerError ==
    <<"I", "n", "t", "e", "r", "n", "a", "l", " ", "S", "e", "r", "v",
      "e", "r", " ", "E", "r", "r", "o", "r">>

\* os.path.exists: the files on disk.
ExistingFiles == {"img1", "uploads/up.jpg"}

\* os.path.join(app.config['UPLOAD_FOLDER'], os.path.basename(image_path))
PotentialPath(image_path) ==
    CASE image_path = "up.jpg" -> "uploads/up.jpg"
      [] image_path = "gone.jpg" -> "uploads/gone.jpg"
      [] OTHER -> "uploads/img1"

\* The image is where the request says, or in the upload folder.
ImageFound(image_path) ==
    image_path \in ExistingFiles \/ PotentialPath(image_path) \in ExistingFiles

\* The path handed to set_image for an image that was found.
ResolveImage(image_path) ==
    IF image_path \in ExistingFiles THEN image_path ELSE PotentialPath(image_path)

\* What classify_task_with_groq may return: always one of the valid tasks.
ClassifierResults == {"general", "pointing"}

\* task after the "auto" branch.
TaskOf(d) == IF d.task = "auto" THEN ClassifierResults ELSE {d.task}

\* model.inference ends with an exception that `except Exception` lets through.
ModelInterrupted == [kind |-> "interrupt", text |-> EmptyText]

\* chat() has returned (or raised): its locals are gone.
Done(exit, response) == Request("done", NoData, NoneVal, NoObject, exit, response)

Rejected(status, error) ==
    Done("none", Response(status, error, NoResult, NoneVal, NoneVal))

\* An entry of the history of request r, with whether r holds the lock.
Ev(op, r) == [op |-> op, locked |-> inference_lock = r]

\* "Clear GPU cache before inference"
ClearCacheBefore(r) == IF cuda THEN <<Ev("empty_cache", r)>> ELSE << >>

\* The cleanup skipped when ask did not return normally.
CleanupAfterReturnOnly(r, how) ==
    IF cuda /\ how = "returned" THEN <<Ev("empty_cache", r)>> ELSE << >>

\* The finally block around chat_session.ask: it runs however ask ended
\* (how is "returned" or "raised").
FinallyCleanup(r, how) == IF cuda THEN <<Ev("empty_cache", r)>> ELSE << >>

\* A lock released only where the block runs to its end.
ReleaseAtEndOnly(r, kind) == IF kind = "normal" THEN NoHolder ELSE r

\* `with inference_lock:` left by request r; kind is "normal", "return" or
\* "exception". The lock is released in each case.
WithExit(r, kind) == NoHolder

\* chat(), from its first line to the test `session_id not in sessions`.
ReceiveOutcome(d, task) ==
    IF ~model_loaded THEN Rejected(503, ModelNotInitialized)
    ELSE IF ~d.present THEN Rejected(400, NoJsonData)
    ELSE IF ~Truthy(PyOr(d.session_id, d.sessionId))
         THEN Rejected(400, MissingSessionId)
    ELSE Request(IF sessions[PyOr(d.session_id, d.sessionId)] = NoObject
                 THEN "create" ELSE "bind",
                 d, task, NoObject, "none", NoResponse)

ChatReceive(r, d, task) ==
    /\ req[r].pc = "start"
    /\ req' = [req EXCEPT ![r] = ReceiveOutcome(d, task)]
    /\ UNCHANGED <<model_loaded, cuda, sessions, heap, inference_lock, trace>>
    /\ UNCHANGED <<memvars, pipevars, groqvars, fnvars, reply>>

\* sessions[session_id] = MultiTurnInference(model, repo_dir)
ChatCreate(r) ==
    /\ req[r].pc = "create"
    /\ heap' = Append(heap, NewMemory(DefaultMaxTurns))
    /\ sessions' =
         [sessions EXCEPT ![PyOr(req[r].data.session_id, req[r].data.sessionId)] =
             Len(heap) + 1]
    /\ req' = [req EXCEPT ![r].pc = "bind"]
    /\ UNCHANGED <<model_loaded, cuda, inference_lock, trace>>
    /\ UNCHANGED <<memvars, pipevars, groqvars, fnvars, reply>>

\* chat_session = sessions[session_id]
ChatBind(r) ==
    /\ req[r].pc = "bind"
    /\ \E obj \in {sessions[PyOr(req[r].data.session_id, req[r].data.sessionId)]} :
         req' = [req EXCEPT ![r] =
                    IF obj = NoObject
                    THEN Done("none", Response(500, InternalServerError, NoResult,
                                               NoneVal, NoneVal))
                    ELSE [@ EXCEPT !.pc = "wait", !.chat_session = obj]]
    /\ UNCHANGED <<model_loaded, cuda, sessions, heap, inference_lock, trace>>
    /\ UNCHANGED <<memvars, pipevars, groqvars, fnvars, reply>>

\* An acquire that does not wait for the lock to be free.
ChatAcquireNoWait(r) ==
    /\ req[r].pc = "wait"
    /\ inference_lock' = r
    /\ req' = [req EXCEPT ![r].pc = "locked"]
    /\ UNCHANGED <<model_loaded, cuda, sessions, heap, trace>>
    /\ UNCHANGED <<memvars, pipevars, groqvars, fnvars, reply>>

\* `with inference_lock:` entered: the request blocks until the lock is free.
ChatAcquire(r) ==
    /\ req[r].pc = "wait"
    /\ inference_lock = NoHolder
    /\ inference_lock' = r
    /\ req' = [req EXCEPT ![r].pc = "locked"]
    /\ UNCHANGED <<model_loaded, cuda, sessions, heap, trace>>
    /\ UNCHANGED <<memvars, pipevars, groqvars, fnvars, reply>>

\* The with block, from its first statement to the call of model.inference
\* inside chat_session.ask: the request leaves the block at once when the
\* image is not found, when message[:50] raises (message is None) or when
\* ask returns without calling the model (no image set).
ChatEnter(r) ==
    /\ req[r].pc = "locked"
    /\ \E d \in {req[r].data}, obj \in {req[r].chat_session},
          before \in {trace[r] \o ClearCacheBefore(r)} :
         IF Truthy(d.image) /\ ~ImageFound(d.image)
         THEN /\ req' = [req EXCEPT ![r] =
                    Done("return", Response(400, ImageNotFoundPrefix \o <<d.image>>,
                                            NoResult, NoneVal, NoneVal))]
              /\ trace' = [trace EXCEPT ![r] = before]
              /\ inference_lock' = WithExit(r, "return")
              /\ heap' = heap
         ELSE \E m \in {IF Truthy(d.image)
                        THEN set_image(heap[obj], ResolveImage(d.image))
                        ELSE heap[obj]} :
                IF d.message = NoneText
                THEN /\ req' = [req EXCEPT ![r] =
                           Done("exception", Response(500, InternalServerError,
                                                      NoResult, NoneVal, NoneVal))]
                     /\ trace' = [trace EXCEPT ![r] = before]
                     /\ inference_lock' = WithExit(r, "exception")
                     /\ heap' = [heap EXCEPT ![obj] = m]
                ELSE \E b \in {AskBegin(m, d.message, NoneVal, req[r].task)} :
                       /\ heap' = [heap EXCEPT ![obj] = b.mem]
                       /\ IF b.returned
                          THEN /\ req' = [req EXCEPT ![r].pc = "respond",
                                                     ![r].exit = "normal",
                                                     ![r].response.result = b.result]
                               /\ trace' = [trace EXCEPT ![r] =
                                     before \o <<Ev("ask_call", r), Ev("ask_return", r)>>
                                            \o FinallyCleanup(r, "returned")]
                               /\ inference_lock' = WithExit(r, "normal")
                          ELSE /\ req' = [req EXCEPT ![r].pc = "infer"]
                               /\ trace' = [trace EXCEPT ![r] =
                                     before \o <<Ev("ask_call", r)>>]
                               /\ inference_lock' = inference_lock
    /\ UNCHANGED <<model_loaded, cuda, sessions>>
    /\ UNCHANGED <<memvars, pipevars, groqvars, fnvars, reply>>

\* model.inference ends: ask completes (or lets the exception through), the
\* finally block runs and the with block is left.
ChatInferEnd(r, outcome) ==
    /\ req[r].pc = "infer"
    /\ \E obj \in {req[r].chat_session} :
         IF outcome.kind = "interrupt"
         THEN /\ req' = [req EXCEPT ![r] =
                    Done("exception", Response(500, InternalServerError,
                                               NoResult, NoneVal, NoneVal))]
              /\ trace' = [trace EXCEPT ![r] =
                    @ \o <<Ev("ask_raise", r)>> \o FinallyCleanup(r, "raised")]
              /\ inference_lock' = WithExit(r, "exception")
              /\ heap' = heap
         ELSE \E e \in {AskEnd(heap[obj],
                               [prompt |-> req[r].data.message,
                                img |-> heap[obj].current_image,
                                task |-> req[r].task],
                               outcome)} :
                /\ req' = [req EXCEPT ![r].pc = "respond",
                                      ![r].exit = "normal",
                                      ![r].response.result = e.result]
                /\ trace' = [trace EXCEPT ![r] =
                      @ \o <<Ev("ask_return", r)>> \o FinallyCleanup(r, "returned")]
                /\ inference_lock' = WithExit(r, "normal")
                /\ heap' = [heap EXCEPT ![obj] = e.mem]
    /\ UNCHANGED <<model_loaded, cuda, sessions>>
    /\ UNCHANGED <<memvars, pipevars, groqvars, fnvars, reply>>

\* After the with block: the response is completed and sent.
ChatRespond(r) ==
    /\ req[r].pc = "respond"
    /\ req' = [req EXCEPT ![r] =
          Done(@.exit,
               Response(200, @.response.result.error, @.response.result, @.task,
                        IF @.data.task = "auto" THEN "auto" ELSE NoneVal))]
    /\ UNCHANGED <<model_loaded, cuda, sessions, heap, inference_lock, trace>>
    /\ UNCHANGED <<memvars, pipevars, groqvars, fnvars, reply>>

(* Inputs of the backend runs *)

\* Request bodies.
ChatRequests ==
    {NoData,
     ChatData(NoneVal, NoneVal, <<"q">>, "img1", "general"),
     ChatData("s1", NoneVal, <<"q">>, "img1", "general"),
     ChatData("s1", NoneVal, <<"q">>, NoneVal, "pointing"),
     ChatData(NoneVal, "s2", <<"q">>, "gone.jpg", "general"),
     ChatData("s2", NoneVal, <<"q">>, "up.jpg", "auto"),
     ChatData("s2", NoneVal, NoneText, NoneVal, "general")}

BackOutcomes ==
    {ModelRaises(d) : d \in ErrDetails}
      \cup {ModelReturnsDict(a) : a \in MemAnswers}
      \cup {ModelInterrupted}

\* Request bodies of the runs checked for progress: one for each way
\* through the handler.
LiveRequests ==
    {NoData,
     ChatData("s1", NoneVal, <<"q">>, "img1", "general"),
     ChatData(NoneVal, "s2", <<"q">>, "gone.jpg", "general"),
     ChatData("s2", NoneVal, NoneText, NoneVal, "general")}

\* Every step of request r, its body being one of bodies.
ChatStep(r, bodies) ==
    \/ \E d \in bodies : \E task \in TaskOf(d) : ChatReceive(r, d, task)
    \/ ChatCreate(r)
    \/ ChatBind(r)
    \/ ChatAcquire(r)
    \/ ChatEnter(r)
    \/ \E o \in BackOutcomes : ChatInferEnd(r, o)
    \/ ChatRespond(r)

InitBackend ==
    /\ memory = NewMemory(MaxTurns)
    /\ appended = << >>
    /\ file = NoFile
    /\ chat_pc = "idle"
    /\ chat_call = NoCall
    /\ chat_result = NoResult
    /\ last_op = "init"
    /\ PipeOff
    /\ GroqOff
    /\ FnOff
    /\ model_loaded \in BOOLEAN
    /\ cuda \in BOOLEAN
    /\ sessions = [s \in SessionIds |-> NoObject]
    /\ heap = << >>
    /\ inference_lock = NoHolder
    /\ req = [r \in Reqs |-> NewRequest]
    /\ trace = [r \in Reqs |-> << >>]
    /\ reply = NoReply

NextBackend == \E r \in Reqs : ChatStep(r, ChatRequests)

SpecBackend == InitBackend /\ [][NextBackend]_vars

\* The request threads are scheduled fairly and every model.inference call
\* ends.
InitLive == InitBackend /\ model_loaded /\ cuda

NextLive == \E r \in Reqs : ChatStep(r, LiveRequests)

FairBackend ==
    InitLive /\ [][NextLive]_vars /\ \A r \in Reqs : WF_vars(ChatStep(r, LiveRequests))

----------------------------------------------------------------------------
(* Claims about the backend's inference lock *)

\* The requests whose chat_session.ask call is waiting for model.inference.
InAsk == {r \in Reqs : req[r].pc = "infer"}

\* The requests inside the with block.
InCritical == {r \in Reqs : req[r].pc \in {"locked", "infer"}}

\* The operations request r logged, in order.
Ops(r) == [i \in 1..Len(trace[r]) |-> trace[r][i].op]

\* C6: whatever the requests and their sessions, at most one ask call is in
\* progress at any instant, and the request making it holds inference_lock.
C6_AtMostOneInferenceInProgress ==
    /\ Cardinality(InAsk) <= 1
    /\ \A r \in InAsk : inference_lock = r

\* One request of one session is inside ask while a request of another
\* session waits for the lock.
C6_Witness ==
    \E r1, r2 \in Reqs :
        /\ req[r1].pc = "infer"
        /\ req[r2].pc = "wait"
        /\ req[r1].chat_session # req[r2].chat_session

\* C7: every inference call, those of the backend's requests and those
\* execute_pipeline makes for its steps, is made while the caller holds the
\* inference lock.
C7_EveryInferenceCallHoldsTheLock ==
    /\ \A r \in InAsk : inference_lock = r
    /\ exec_pc = "ask" => inference_lock # NoHolder

\* C8: the lock is held by a request exactly while that request is inside
\* the with block, whichever way it left: by running to the end, by the
\* "Image not found" return or by an exception; with no request inside,
\* the lock is free.
C8_LockReleasedOnEveryExit ==
    /\ \A r \in Reqs : inference_lock = r <=> r \in InCritical
    /\ InCritical = {} => inference_lock = NoHolder

\* One request has left the with block by the early return and another by
\* an exception; the lock is free.
C8_Witness ==
    /\ inference_lock = NoHolder
    /\ \E r1, r2 \in Reqs :
          /\ req[r1].pc = "done" /\ req[r1].exit = "return"
          /\ req[r2].pc = "done" /\ req[r2].exit = "exception"

\* C9: with the request threads scheduled fairly and every model.inference
\* call ending, every request that waits for the lock gets it, and every
\* request ends with a response.
C9_EveryRequestGetsTheLockAndAnswers ==
    \A r \in Reqs :
        /\ (req[r].pc = "wait") ~> (inference_lock = r)
        /\ <>(req[r].pc = "done")

\* Every request has been through ask under the lock and has been answered.
C9_Witness ==
    \A r \in Reqs :
        /\ req[r].pc = "done"
        /\ req[r].response.status = 200
        /\ \E i \in 1..Len(trace[r]) : trace[r][i].op = "ask_call" /\ trace[r][i].locked

\* C10: where an accelerator is available, every ask call of a request is
\* preceded by exactly one cache cleanup and, once it has returned or raised,
\* followed by exactly one, all of them made while the request holds the
\* lock.
C10_CleanupBeforeAndAfterEveryAsk ==
    cuda =>
      \A r \in Reqs :
        /\ \A i \in 1..Len(trace[r]) : trace[r][i].locked
        /\ req[r].pc \in {"start", "create", "bind", "wait", "locked"} =>
              Ops(r) = << >>
        /\ req[r].pc = "infer" => Ops(r) = <<"empty_cache", "ask_call">>
        /\ req[r].pc = "respond" =>
              Ops(r) = <<"empty_cache", "ask_call", "ask_return", "empty_cache">>
        /\ req[r].pc = "done" =>
              Ops(r) \in {<< >>, <<"empty_cache">>,
                          <<"empty_cache", "ask_call", "ask_return", "empty_cache">>,
                          <<"empty_cache", "ask_call", "ask_raise", "empty_cache">>}
        /\ req[r].pc = "done" /\ req[r].exit = "normal" =>
              Ops(r) = <<"empty_cache", "ask_call", "ask_return", "empty_cache">>

\* With an accelerator, one request's ask let an exception through and
\* another's returned the error result of a model.inference call that raised;
\* both were cleaned up after.
C10_Witness ==
    /\ cuda
    /\ \E r1, r2 \in Reqs :
          /\ Ops(r1) = <<"empty_cache", "ask_call", "ask_raise", "empty_cache">>
          /\ Ops(r2) = <<"empty_cache", "ask_call", "ask_return", "empty_cache">>
          /\ req[r2].pc = "done"
          /\ req[r2].response.error # NoneText

----------------------------------------------------------------------------
(* scripts/pipeline_chat.py : GroqPipelineDecomposer.decompose *)

(* The completion text is modelled lexeme by lexeme: an opening bracket, a  *)
(* closing bracket, a comma, the text of one JSON object or number, or any  *)
(* other non-blank character. The object lexeme carries the dict json.loads *)
(* decodes it to; the array structure around it is parsed here.             *)

\* A key that a decoded dict does not have.
AbsentKey == "<absent>"

AbsentText == <<"absent">>

\* Decoded JSON values: a dict (of the keys decompose and execute_pipeline
\* read), a list, a number.
JsonDict(task, prompt, description, use_previous, step) ==
    [kind |-> "dict", task |-> task, prompt |-> prompt, description |-> description,
     use_previous |-> use_previous, step |-> step, items |-> << >>]

JsonList(items) ==
    [kind |-> "list", task |-> AbsentKey, prompt |-> AbsentText,
     description |-> AbsentKey, use_previous |-> FALSE, step |-> NoStep,
     items |-> items]

JsonNumber ==
    [kind |-> "number", task |-> AbsentKey, prompt |-> AbsentText,
     description |-> AbsentKey, use_previous |-> FALSE, step |-> NoStep,
     items |-> << >>]

Lexeme(lex, val) == [lex |-> lex, val |-> val]

LBracket == Lexeme("[", JsonNumber)

RBracket == Lexeme("]", JsonNumber)

Comma == Lexeme(",", JsonNumber)

OtherChar == Lexeme("other", JsonNumber)

ValueText(val) == Lexeme("value", val)

\* re.search(r'\[[\s\S]*\]', content).group(): from the first opening bracket
\* to the last closing bracket, << >> if there is no match.
LexPositions(content, lex) == {i \in 1..Len(content) : content[i].lex = lex}

FirstOf(positions) == CHOOSE i \in positions : \A j \in positions : i <= j

LastOf(positions) == CHOOSE i \in positions : \A j \in positions : j <= i

SearchArray(content) ==
    IF LexPositions(content, "[") = {} \/ LexPositions(content, "]") = {}
    THEN << >>
    ELSE IF LastOf(LexPositions(content, "]")) < FirstOf(LexPositions(content, "["))
    THEN << >>
    ELSE SubSeq(content, FirstOf(LexPositions(content, "[")),
                LastOf(LexPositions(content, "]")))

\* json.loads: ok is FALSE where it raises JSONDecodeError.
JsonError == [ok |-> FALSE, val |-> JsonNumber, next |-> 0]

JsonParsed(val, next) == [ok |-> TRUE, val |-> val, next |-> next]

RECURSIVE ParseValue(_, _)
RECURSIVE ParseItems(_, _, _)

\* After the value v of an array: a comma and more items, or the closing
\* bracket.
ParseAfterItem(t, acc, v) ==
    IF ~v.ok \/ v.next > Len(t) THEN JsonError
    ELSE IF t[v.next].lex = "," THEN ParseItems(t, v.next + 1, Append(acc, v.val))
    ELSE IF t[v.next].lex = "]" THEN JsonParsed(JsonList(Append(acc, v.val)), v.next + 1)
    ELSE JsonError

\* The items of an array from position i on, acc being the items before.
ParseItems(t, i, acc) == ParseAfterItem(t, acc, ParseValue(t, i))

\* The JSON value that starts at position i.
ParseValue(t, i) ==
    IF i > Len(t) THEN JsonError
    ELSE IF t[i].lex = "value" THEN JsonParsed(t[i].val, i + 1)
    ELSE IF t[i].lex = "["
         THEN IF i + 1 <= Len(t) /\ t[i + 1].lex = "]"
              THEN JsonParsed(JsonList(<< >>), i + 2)
              ELSE ParseItems(t, i + 1, << >>)
    ELSE JsonError

\* The whole text must be one value ("Extra data" otherwise).
WholeValue(t, v) == IF v.ok /\ v.next = Len(t) + 1 THEN v ELSE JsonError

json_loads(t) == WholeValue(t, ParseValue(t, 1))

\* len(prompt) < ShortPrompt: "Too short, enhance it"
ShortPrompt == 50

TrajectoryPrefix ==
    <<"g", "e", "n", "e", "r", "a", "t", "e", " ", "t", "r", "a", "j",
      "e", "c", "t", "o", "r", "y", " ", "w", "a", "y", "p", "o", "i",
      "n", "t", "s", " ", "f", "o", "r", " ", "t", "h", "e", " ", "r",
      "o", "b", "o", "t", " ", "e", "n", "d", "-", "e", "f", "f", "e",
      "c", "t", "o", "r", " ", "t", "o", " ">>

\* step.get("prompt", "")
PromptOf(step) == IF step.prompt = AbsentText THEN EmptyText ELSE step.prompt

\* The body of the post-processing loop raises: step.get on a value that is
\* no dict, len() of a null prompt.
StepRaises(step) ==
    \/ step.kind # "dict"
    \/ step.task = "trajectory" /\ step.prompt = NoneText

\* Every trajectory step given the prefix, whatever the length of its prompt.
EnhanceEveryTrajectory(step) ==
    IF step.task = "trajectory"
    THEN [step EXCEPT !.prompt = TrajectoryPrefix \o PromptOf(step)]
    ELSE step

\* "Post-process: enhance trajectory prompts if they're too short"
EnhanceShort(step) ==
    IF step.task = "trajectory" /\ Len(PromptOf(step)) < ShortPrompt
    THEN [step EXCEPT !.prompt = TrajectoryPrefix \o PromptOf(step)]
    ELSE step

\* The single-step pipeline of both fallbacks.
FallbackStep(q, description) == JsonDict("general", q, description, FALSE, 1)

NoArrayFallback(q) == <<FallbackStep(q, "Process query directly")>>

ErrorFallback(q) == <<FallbackStep(q, "Fallback: process as general query")>>

\* The pipeline returned from the decoded value.
PostProcess(q, parsed) ==
    IF ~parsed.ok THEN ErrorFallback(q)
    ELSE IF \E i \in 1..Len(parsed.val.items) : StepRaises(parsed.val.items[i])
    THEN ErrorFallback(q)
    ELSE [i \in 1..Len(parsed.val.items) |-> EnhanceShort(parsed.val.items[i])]

\* The pipeline returned when the search finds no array at all is empty.
DecomposeMatchEmptyOnNoArray(q, json_match) ==
    IF json_match = << >> THEN << >>
    ELSE PostProcess(q, json_loads(json_match))

\* "Extract JSON from response"
DecomposeMatch(q, json_match) ==
    IF json_match = << >> THEN NoArrayFallback(q)
    ELSE PostProcess(q, json_loads(json_match))

\* GroqPipelineDecomposer.decompose. A raising call and the .strip() of a None
\* content both end in the except branch.
decompose(q, comp) ==
    IF comp.kind # "content" THEN ErrorFallback(q)
    ELSE DecomposeMatch(q, SearchArray(comp.content))

\* decompose(query) runs, from its call to its return.
Decompose ==
    /\ groq_op = "decompose_call"
    /\ decomposed' = decompose(query, completion)
    /\ groq_op' = "decompose"
    /\ UNCHANGED <<query, completion, classified, memvars, pipevars, backvars, fnvars>>

(* Inputs of decompose *)

\* Most lexemes of a completion text that is not one well-formed array.
MaxLexemes == 4

\* Most elements of a well-formed array.
MaxElements == 2

TextOfLength(n) == [i \in 1..n |-> "m"]

ReachTheCup ==
    <<"r", "e", "a", "c", "h", " ", "t", "h", "e", " ", "c", "u", "p">>

DecodedSteps ==
    {JsonDict("trajectory", TextOfLength(ShortPrompt - 1), "d", TRUE, 2),
     JsonDict("trajectory", TextOfLength(ShortPrompt), "d", TRUE, 2),
     JsonDict("trajectory", AbsentText, "d", FALSE, NoStep),
     JsonDict("trajectory", NoneText, "d", FALSE, 1),
     JsonDict("grounding", ReachTheCup, "d", FALSE, 1),
     JsonDict("navigate", ReachTheCup, AbsentKey, FALSE, 1),
     JsonDict(AbsentKey, AbsentText, AbsentKey, FALSE, NoStep)}

Lexemes ==
    {LBracket, RBracket, Comma, OtherChar, ValueText(JsonNumber)}
      \cup {ValueText(d) : d \in DecodedSteps}

\* The text of the array of the given elements.
RECURSIVE ArrayItems(_)
ArrayItems(elements) ==
    IF Len(elements) = 1 THEN <<ValueText(elements[1])>>
    ELSE <<ValueText(elements[1]), Comma>> \o ArrayItems(Tail(elements))

ArrayText(elements) ==
    IF elements = << >> THEN <<LBracket, RBracket>>
    ELSE <<LBracket>> \o ArrayItems(elements) \o <<RBracket>>

DecomposerTexts ==
    UNION {[1..n -> Lexemes] : n \in 0..MaxLexemes}
      \cup {ArrayText(e) : e \in UNION {[1..n -> DecodedSteps] : n \in 0..MaxElements}}

DecomposerCompletions ==
    {CompletionRaises, CompletionNone}
      \cup {CompletionReturns(c) : c \in DecomposerTexts}

PickUpTheRedCup ==
    <<"P", "i", "c", "k", " ", "u", "p", " ", "t", "h", "e", " ", "r",
      "e", "d", " ", "c", "u", "p">>

DecomposeQueries == {<<"q">>, PickUpTheRedCup}

InitDecompose ==
    /\ memory = NewMemory(MaxTurns)
    /\ appended = << >>
    /\ file = NoFile
    /\ chat_pc = "idle"
    /\ chat_call = NoCall
    /\ chat_result = NoResult
    /\ last_op = "init"
    /\ PipeOff
    /\ BackOff
    /\ FnOff
    /\ groq_op = "decompose_call"
    /\ query \in DecomposeQueries
    /\ completion \in DecomposerCompletions
    /\ decomposed = << >>
    /\ classified = NoneVal

NextDecompose == Decompose

SpecDecompose == InitDecompose /\ [][NextDecompose]_vars

----------------------------------------------------------------------------
(* Claims about decompose *)

\* The completion text has no opening bracket with a closing one after it.
NoBracketedArray(content) ==
    ~\E i, j \in 1..Len(content) :
        i < j /\ content[i].lex = "[" /\ content[j].lex = "]"

\* What json.loads makes of the bracketed part of the completion text.
DecodedArray == json_loads(SearchArray(completion.content))

\* The decomposer call failed, or its output holds no bracketed array, or
\* the array cannot be parsed, or it cannot be processed.
DecompositionFails ==
    \/ completion.kind # "content"
    \/ NoBracketedArray(completion.content)
    \/ ~DecodedArray.ok
    \/ \E i \in 1..Len(DecodedArray.val.items) : StepRaises(DecodedArray.val.items[i])

\* C16: decompose returns whatever the decomposer call does, and whenever the
\* call fails, or its output has no bracketed array, or the array cannot be
\* parsed or processed, the pipeline returned is one step: task general, the
\* original query as prompt, use_previous false.
C16_FallbackIsOneGeneralStep ==
    groq_op = "decompose" /\ DecompositionFails =>
        /\ Len(decomposed) = 1
        /\ decomposed[1].task = "general"
        /\ decomposed[1].prompt = query
        /\ decomposed[1].use_previous = FALSE

\* An array of two dicts was decoded and the second one, a trajectory step
\* with a null prompt, could not be processed: the fallback was returned.
C16_Witness ==
    /\ groq_op = "decompose"
    /\ query = PickUpTheRedCup
    /\ completion.kind = "content"
    /\ DecodedArray.ok
    /\ Len(DecodedArray.val.items) = 2
    /\ ~StepRaises(DecodedArray.val.items[1])
    /\ StepRaises(DecodedArray.val.items[2])
    /\ decomposed = ErrorFallback(PickUpTheRedCup)

\* C17: every step of every pipeline decompose returns has one of the five
\* task kinds and carries a prompt, so a decoded element whose task is
\* unknown or missing is never returned as it was decoded.
C17_ReturnedStepsHaveKnownTaskAndPrompt ==
    groq_op = "decompose" =>
        \A i \in 1..Len(decomposed) :
            /\ decomposed[i].task \in Tasks
            /\ decomposed[i].prompt # AbsentText
            /\ decomposed[i].prompt # NoneText
            /\ \A j \in 1..Len(DecodedArray.val.items) :
                  DecodedArray.val.items[j].task \notin Tasks =>
                      decomposed[i] # DecodedArray.val.items[j]

\* The prompt C18 expects decompose to return for the decoded step d.
ExpectedPrompt(d) ==
    IF d.task = "trajectory" /\ Len(PromptOf(d)) < 50
    THEN TrajectoryPrefix \o PromptOf(d)
    ELSE d.prompt

\* C18: in the pipeline returned from a parsed array, a trajectory step whose
\* decoded prompt has fewer than 50 characters has the template prefix
\* followed by the decoded prompt, every other step has its decoded prompt
\* unchanged; no returned trajectory step has a prompt of fewer than 50
\* characters.
C18_ShortTrajectoryPromptsPrefixed ==
    groq_op = "decompose" =>
        /\ ~DecompositionFails =>
              /\ Len(decomposed) = Len(DecodedArray.val.items)
              /\ \A i \in 1..Len(decomposed) :
                    /\ decomposed[i].prompt = ExpectedPrompt(DecodedArray.val.items[i])
                    /\ decomposed[i].task = DecodedArray.val.items[i].task
        /\ \A i \in 1..Len(decomposed) :
              decomposed[i].task = "trajectory" => Len(decomposed[i].prompt) >= 50

\* Two trajectory steps were returned: the one decoded with 49 characters
\* has the prefix, the one decoded with 50 characters is as decoded.
C18_Witness ==
    /\ groq_op = "decompose"
    /\ Len(decomposed) = 2
    /\ decomposed[1].task = "trajectory"
    /\ decomposed[2].task = "trajectory"
    /\ decomposed[1].prompt = TrajectoryPrefix \o TextOfLength(49)
    /\ decomposed[2].prompt = TextOfLength(50)

----------------------------------------------------------------------------
(* scripts/smart_chat.py, scripts/pipeline_chat.py, backend.py : the task  *)
(* classifiers                                                              *)

UpperCase ==
    <<"A", "B", "C", "D", "E", "F", "G", "H", "I", "J", "K", "L", "M",
      "N", "O", "P", "Q", "R", "S", "T", "U", "V", "W", "X", "Y", "Z">>

LowerCase ==
    <<"a", "b", "c", "d", "e", "f", "g", "h", "i", "j", "k", "l", "m",
      "n", "o", "p", "q", "r", "s", "t", "u", "v", "w", "x", "y", "z">>

\* str.lower(), of the ASCII letters.
LowerChar(c) ==
    IF \E i \in 1..Len(UpperCase) : UpperCase[i] = c
    THEN LowerCase[CHOOSE i \in 1..Len(UpperCase) : UpperCase[i] = c]
    ELSE c

Lower(t) == [i \in 1..Len(t) |-> LowerChar(t[i])]

\* any(kw in text for kw in keywords)
AnyIn(keywords, text) == \E kw \in keywords : Contains(text, kw)

GroundingKeywords ==
    {<<"w", "h", "e", "r", "e", " ", "i", "s">>,
     <<"f", "i", "n", "d">>,
     <<"l", "o", "c", "a", "t", "e">>,
     <<"s", "h", "o", "w", " ", "m", "e", " ", "w", "h", "e", "r", "e">>}

AffordanceKeywords ==
    {<<"g", "r", "a", "s", "p">>,
     <<"g", "r", "a", "b">>,
     <<"p", "i", "c", "k", " ", "u", "p">>,
     <<"g", "r", "a", "s", "p", "a", "b", "l", "e">>,
     <<"a", "f", "f", "o", "r", "d", "a", "n", "c", "e">>}

TrajectoryKeywords ==
    {<<"p", "a", "t", "h">>,
     <<"t", "r", "a", "j", "e", "c", "t", "o", "r", "y">>,
     <<"m", "o", "v", "e", " ", "t", "o">>,
     <<"r", "e", "a", "c", "h">>,
     <<"n", "a", "v", "i", "g", "a", "t", "e">>}

AtCoordinate ==
    <<"a", "t", " ", "c", "o", "o", "r", "d", "i", "n", "a", "t", "e">>

\* at\s*\(?\s*\d+ matched at position i: the position after \(? is j.
AfterParen(s, j) == IF j <= Len(s) /\ s[j] = "(" THEN j + 1 ELSE j

DigitAt(s, j) == j <= Len(s) /\ s[j] \in Digits

AtNumberAt(s, i) ==
    /\ i + 1 <= Len(s)
    /\ s[i] = "a"
    /\ s[i + 1] = "t"
    /\ DigitAt(s, SpacesEnd(s, AfterParen(s, SpacesEnd(s, i + 2))))

\* re.search(r"at\s*\(?\s*\d+", s)
AtNumber(s) == \E i \in 1..Len(s) : AtNumberAt(s, i)

\* The keyword rules with the affordance rule tried before the grounding one.
FallbackAffordanceFirst(prompt_lower) ==
    IF AnyIn(AffordanceKeywords, prompt_lower) THEN "affordance"
    ELSE IF AnyIn(GroundingKeywords, prompt_lower) THEN "grounding"
    ELSE IF AnyIn(TrajectoryKeywords, prompt_lower) THEN "trajectory"
    ELSE IF AtNumber(prompt_lower) \/ Contains(prompt_lower, AtCoordinate) THEN "pointing"
    ELSE "general"

\* "Simple keyword matching": the task of the tuple returned.
FallbackRules(prompt_lower) ==
    IF AnyIn(GroundingKeywords, prompt_lower) THEN "grounding"
    ELSE IF AnyIn(AffordanceKeywords, prompt_lower) THEN "affordance"
    ELSE IF AnyIn(TrajectoryKeywords, prompt_lower) THEN "trajectory"
    ELSE IF AtNumber(prompt_lower) \/ Contains(prompt_lower, AtCoordinate) THEN "pointing"
    ELSE "general"

\* smart_chat.classify_task_fallback
classify_task_fallback(prompt) == FallbackRules(Strip(Lower(prompt), Spaces))

\* The names of the tasks (the keys of ROBOBRAIN_TASKS, valid_tasks).
TaskNames ==
    {[task |-> "general", name |-> <<"g", "e", "n", "e", "r", "a", "l">>],
     [task |-> "grounding",
      name |-> <<"g", "r", "o", "u", "n", "d", "i", "n", "g">>],
     [task |-> "affordance",
      name |-> <<"a", "f", "f", "o", "r", "d", "a", "n", "c", "e">>],
     [task |-> "trajectory",
      name |-> <<"t", "r", "a", "j", "e", "c", "t", "o", "r", "y">>],
     [task |-> "pointing",
      name |-> <<"p", "o", "i", "n", "t", "i", "n", "g">>]}

\* The task named by the text, "general" if it names none.
TaskNamed(text) ==
    IF \E n \in TaskNames : n.name = text
    THEN (CHOOSE n \in TaskNames : n.name = text).task
    ELSE "general"

\* GroqPipelineDecomposer.classify_single. A raising call and the .strip() of
\* a None content both end in the except branch.
classify_single(q, comp) ==
    IF comp.kind # "content" THEN "general"
    ELSE TaskNamed(Lower(Strip(comp.content, Spaces)))

\* backend.classify_task_with_groq
classify_task_with_groq(prompt, has_key, comp) ==
    IF ~has_key THEN "general"
    ELSE IF comp.kind # "content" THEN "general"
    ELSE TaskNamed(Lower(Strip(comp.content, Spaces)))

\* A completion with a tool call (its arguments valid JSON or not), or none.
ToolCall(name, valid_arguments) ==
    [kind |-> IF valid_arguments THEN "tool" ELSE "tool_bad_arguments",
     content |-> <<name>>]

NoToolCall == [kind |-> "no_tool", content |-> << >>]

\* TOOL_TO_TASK.get(tool_name, "general")
ToolToTask(tool_name) ==
    CASE tool_name = "task_general" -> "general"
      [] tool_name = "task_grounding" -> "grounding"
      [] tool_name = "task_affordance" -> "affordance"
      [] tool_name = "task_trajectory" -> "trajectory"
      [] tool_name = "task_pointing" -> "pointing"
      [] OTHER -> "general"

\* GroqTaskClassifier.classify: the task of the tuple returned, NoneVal from
\* the except branch.
classify(comp) ==
    CASE comp.kind = "tool" -> ToolToTask(comp.content[1])
      [] comp.kind = "no_tool" -> "general"
      [] OTHER -> NoneVal

\* "Fallback on error"
FallbackOnError(task, user_input) ==
    IF task = NoneVal THEN classify_task_fallback(user_input) ELSE task

\* smart_chat.main: "Determine task (auto or forced)"
DetermineTaskOf(user_input, forced_task, use_ml, comp) ==
    IF Truthy(forced_task) THEN forced_task
    ELSE IF use_ml THEN FallbackOnError(classify(comp), user_input)
    ELSE classify_task_fallback(user_input)

TextCompletionKinds == {"raise", "none", "content"}

ToolCompletionKinds == {"raise", "tool", "tool_bad_arguments", "no_tool"}

\* One call of a classifier, from its call to its return.
Classified(op, task) ==
    /\ groq_op = "call"
    /\ groq_op' = op
    /\ classified' = task
    /\ UNCHANGED <<query, completion, decomposed, memvars, pipevars, backvars, fnvars>>

ClassifyTaskFallback ==
    Classified("classify_task_fallback", classify_task_fallback(query))

ClassifySingle ==
    /\ completion.kind \in TextCompletionKinds
    /\ Classified("classify_single", classify_single(query, completion))

ClassifyTaskWithGroq(has_key) ==
    /\ completion.kind \in TextCompletionKinds
    /\ Classified(IF has_key THEN "classify_task_with_groq"
                  ELSE "classify_task_with_groq, no key",
                  classify_task_with_groq(query, has_key, completion))

DetermineTask(forced_task, use_ml) ==
    /\ completion.kind \in ToolCompletionKinds
    /\ Classified(IF Truthy(forced_task) THEN "main, forced"
                  ELSE IF use_ml THEN "main, ml" ELSE "main, keywords",
                  DetermineTaskOf(query, forced_task, use_ml, completion))

(* Inputs of the classifiers *)

\* Most phrases of a query.
MaxPhrases == 2

Phrases ==
    {<<"w", "h", "e", "r", "e", " ", "i", "s">>,
     <<"F", "i", "n", "d">>,
     <<"p", "i", "c", "k", " ", "u", "p">>,
     <<"g", "r", "a", "s", "p", "a", "b", "l", "e">>,
     <<"p", "a", "t", "h">>,
     <<"r", "e", "a", "c", "h">>,
     <<"a", "t", " ", "(", "1", "2">>,
     <<"a", "t", " ", "c", "o", "o", "r", "d", "i", "n", "a", "t", "e">>,
     <<"w", "h", "a", "t", " ", "i", "s">>,
     <<"t", "h", "e", " ", "c", "u", "p">>,
     <<"7">>}

PhraseSeqs == UNION {[1..n -> Phrases] : n \in 0..MaxPhrases}

WhereIsTheCup ==
    <<"w", "h", "e", "r", "e", " ", "i", "s", " ", "t", "h", "e", " ",
      "c", "u", "p">>

PickUpTheMug ==
    <<"p", "i", "c", "k", " ", "u", "p", " ", "t", "h", "e", " ", "m",
      "u", "g">>

PlanAPathToTheDoor ==
    <<"p", "l", "a", "n", " ", "a", " ", "p", "a", "t", "h", " ", "t",
      "o", " ", "t", "h", "e", " ", "d", "o", "o", "r">>

WhatIsInThisImage ==
    <<"w", "h", "a", "t", " ", "i", "s", " ", "i", "n", " ", "t", "h",
      "i", "s", " ", "i", "m", "a", "g", "e">>

LocateTheDoorPadded ==
    <<" ", " ", "L", "O", "C", "A", "T", "E", " ", "t", "h", "e", " ",
      "d", "o", "o", "r", " ", "\n">>

ClassifierQueries ==
    {Join(p, <<" ">>) : p \in PhraseSeqs}
      \cup {WhereIsTheCup, PickUpTheMug, PlanAPathToTheDoor, WhatIsInThisImage,
            LocateTheDoorPadded}

ClassifierCompletions ==
    {CompletionRaises, CompletionNone, NoToolCall,
     CompletionReturns(<<"g", "r", "o", "u", "n", "d", "i", "n", "g">>),
     CompletionReturns(<<" ", "T", "r", "a", "j", "e", "c", "t", "o", "r", "y", "\n">>),
     CompletionReturns(<<"n", "a", "v", "i", "g", "a", "t", "e">>),
     ToolCall("task_affordance", TRUE), ToolCall("task_affordance", FALSE),
     ToolCall("task_other", TRUE)}

InitClassify ==
    /\ memory = NewMemory(MaxTurns)
    /\ appended = << >>
    /\ file = NoFile
    /\ chat_pc = "idle"
    /\ chat_call = NoCall
    /\ chat_result = NoResult
    /\ last_op = "init"
    /\ PipeOff
    /\ BackOff
    /\ FnOff
    /\ groq_op = "call"
    /\ query \in ClassifierQueries
    /\ completion \in ClassifierCompletions
    /\ decomposed = << >>
    /\ classified = NoneVal

NextClassify ==
    \/ ClassifyTaskFallback
    \/ ClassifySingle
    \/ \E has_key \in BOOLEAN : ClassifyTaskWithGroq(has_key)
    \/ \E forced_task \in {NoneVal, "pointing"}, use_ml \in BOOLEAN :
          DetermineTask(forced_task, use_ml)

SpecClassify == InitClassify /\ [][NextClassify]_vars

----------------------------------------------------------------------------
(* Claims about the classifiers *)

\* The rules of classify_task_fallback in their order, and what each matches.
RuleOrder == <<"grounding", "affordance", "trajectory", "pointing">>

RuleMatches(task, text) ==
    CASE task = "grounding" -> AnyIn(GroundingKeywords, text)
      [] task = "affordance" -> AnyIn(AffordanceKeywords, text)
      [] task = "trajectory" -> AnyIn(TrajectoryKeywords, text)
      [] task = "pointing" -> AtNumber(text) \/ Contains(text, AtCoordinate)

MatchingRules(text) == {i \in 1..Len(RuleOrder) : RuleMatches(RuleOrder[i], text)}

FirstMatch(text) ==
    IF MatchingRules(text) = {} THEN "general"
    ELSE RuleOrder[CHOOSE i \in MatchingRules(text) :
                      \A j \in MatchingRules(text) : i <= j]

\* C20: classify_task_fallback returns, for every query, the task of the
\* first rule that matches in the order grounding, affordance, trajectory,
\* pointing, and general when none matches; 'where is the cup' gives
\* grounding, 'pick up the mug' affordance, 'plan a path to the door'
\* trajectory, 'what is in this image' general.
C20_FallbackFirstMatchWins ==
    groq_op = "classify_task_fallback" =>
        /\ classified \in Tasks
        /\ classified = FirstMatch(Strip(Lower(query), Spaces))
        /\ query = WhereIsTheCup => classified = "grounding"
        /\ query = PickUpTheMug => classified = "affordance"
        /\ query = PlanAPathToTheDoor => classified = "trajectory"
        /\ query = WhatIsInThisImage => classified = "general"

\* A query with keywords of the grounding rule and of the affordance rule was
\* classified as grounding.
C20_Witness ==
    /\ groq_op = "classify_task_fallback"
    /\ Cardinality(MatchingRules(Strip(Lower(query), Spaces))) >= 2
    /\ AnyIn(AffordanceKeywords, Strip(Lower(query), Spaces))
    /\ query # Lower(query)
    /\ classified = "grounding"

\* The single-task classifications that call the Groq collaborator.
CollaboratorClassifiers == {"classify_single", "classify_task_with_groq", "main, ml"}

\* C19: a single-task classification whose collaborator call failed still
\* returns a task, and that task is the one the keyword fallback gives for
\* the query.
C19_FailedClassificationUsesKeywords ==
    groq_op \in CollaboratorClassifiers /\ completion.kind = "raise" =>
        /\ classified \in Tasks
        /\ classified = classify_task_fallback(query)

----------------------------------------------------------------------------
(* scripts/conversation_memory.py : ConversationMemory.get_context_prompt *)

\* self.turns[-10:] : "Last 10 turns for context"
ContextTurns == 10

ContextMarker ==
    <<"[", "P", "r", "e", "v", "i", "o", "u", "s", " ", "c", "o", "n",
      "v", "e", "r", "s", "a", "t", "i", "o", "n", " ", "c", "o", "n",
      "t", "e", "x", "t", "]">>

QueryMarker ==
    <<"[", "C", "u", "r", "r", "e", "n", "t", " ", "q", "u", "e", "r",
      "y", "]">>

UserLabel == <<"U", "s", "e", "r">>

AssistantLabel == <<"A", "s", "s", "i", "s", "t", "a", "n", "t">>

WithImage ==
    <<" ", "(", "w", "i", "t", "h", " ", "i", "m", "a", "g", "e", ")">>

\* The line appended to context_parts for one turn.
TurnLine(turn, include_images) ==
    (IF turn.role = "user" THEN UserLabel ELSE AssistantLabel)
      \o (IF Truthy(turn.image_path) /\ include_images /\ turn.role = "user"
          THEN WithImage ELSE EmptyText)
      \o <<":", " ">> \o PyStr(turn.content)

TurnLines(turns, include_images) ==
    [i \in 1..Len(turns) |-> TurnLine(turns[i], include_images)]

\* The turns rendered, were the whole history taken.
ShownTurnsAll(m) == m.turns

\* The turns rendered.
ShownTurns(m) == PySliceFrom(m.turns, -ContextTurns)

get_context_prompt(m, include_images) ==
    IF m.turns = << >> THEN EmptyText
    ELSE Join(<<ContextMarker>> \o TurnLines(ShownTurns(m), include_images)
                \o <<QueryMarker>>, <<"\n">>)

GetContextPrompt(include_images) ==
    /\ chat_pc = "idle"
    /\ context' = get_context_prompt(memory, include_images)
    /\ last_op' = "get_context_prompt"
    /\ UNCHANGED <<memory, appended, file, chat_pc, chat_call, chat_result>>
    /\ UNCHANGED <<pipevars, backvars, groqvars>>
    /\ UNCHANGED <<parse_op, parse_task, parse_answer, parse_result>>

(* Memories of every length up to one more than the context holds *)

\* Most turns of a memory whose context prompt is built.
MaxContextTurns == 11

\* n turns, numbered in their contents, the roles alternating.
NumberedTurns(n, first_role, image_path) ==
    [i \in 1..n |->
        IF (i % 2 = 1) = (first_role = "user")
        THEN Turn("user", IntToText(i), image_path, "general")
        ELSE Turn("assistant", IntToText(i), image_path, NoneVal)]

ContextMemories ==
    {[turns |-> NumberedTurns(n, r, i), current_image |-> i,
      max_turns |-> DefaultMaxTurns] :
        n \in 0..MaxContextTurns, r \in {"user", "assistant"}, i \in OptImages}

InitContext ==
    /\ memory \in ContextMemories
    /\ appended = memory.turns
    /\ file = NoFile
    /\ chat_pc = "idle"
    /\ chat_call = NoCall
    /\ chat_result = NoResult
    /\ last_op = "init"
    /\ PipeOff
    /\ GroqOff
    /\ FnOff
    /\ BackOff

NextContext ==
    \/ \E include_images \in BOOLEAN : GetContextPrompt(include_images)
    \/ Clear

SpecContext == InitContext /\ [][NextContext]_vars

----------------------------------------------------------------------------
(* Claims about get_context_prompt and clear *)

\* The lines of a text, split at its newlines.
RECURSIVE SplitLines(_)
NewlinePositions(t) == {i \in 1..Len(t) : t[i] = "\n"}

FirstNewline(t) == CHOOSE i \in NewlinePositions(t) : \A j \in NewlinePositions(t) : i <= j

SplitLines(t) ==
    IF NewlinePositions(t) = {} THEN <<t>>
    ELSE <<SubSeq(t, 1, FirstNewline(t) - 1)>>
           \o SplitLines(SubSeq(t, FirstNewline(t) + 1, Len(t)))

\* The number of turns C21 expects in the context.
ShownCount == IF Len(memory.turns) < 10 THEN Len(memory.turns) ELSE 10

\* Line k of the context renders the k-th of the last ShownCount turns: its
\* label comes first and its content last.
RendersTurn(line, turn) ==
    /\ Len(line) > Len(turn.content)
    /\ SubSeq(line, Len(line) - Len(turn.content) + 1, Len(line)) = turn.content
    /\ line[1] = (IF turn.role = "user" THEN "U" ELSE "A")

\* C21: get_context_prompt returns the empty text on an empty memory; on a
\* memory of n > 0 turns it returns the context marker line, one line for each
\* of the last min(n, 10) turns in their order, and the current-query marker
\* line; it changes neither turns nor current_image.
C21_ContextOfLastTenTurns ==
    /\ [](last_op = "get_context_prompt" /\ memory.turns = << >> => context = EmptyText)
    /\ [](last_op = "get_context_prompt" /\ memory.turns # << >> =>
            /\ Len(SplitLines(context)) = ShownCount + 2
            /\ SplitLines(context)[1] = ContextMarker
            /\ SplitLines(context)[ShownCount + 2] = QueryMarker
            /\ \A k \in 1..ShownCount :
                  RendersTurn(SplitLines(context)[k + 1],
                              memory.turns[Len(memory.turns) - ShownCount + k]))
    /\ [][last_op' = "get_context_prompt" => memory' = memory]_vars

\* The context of a memory of more than 10 turns was built.
C21_Witness ==
    /\ last_op = "get_context_prompt"
    /\ Len(memory.turns) > 10
    /\ Len(SplitLines(context)) = 12

----------------------------------------------------------------------------
(* scripts/conversation_memory.py : save and load, on memories whose turns  *)
(* differ in every field                                                    *)

\* Most turns of a memory that is saved.
MaxStored == 2

\* A turn with the given timestamp and metadata.
StoredTurn(turn, timestamp, metadata) ==
    [turn EXCEPT !.timestamp = timestamp, !.metadata = metadata]

StoredTurns ==
    {StoredTurn(Turn("user", <<"q">>, "img1", "grounding"), "t1", EmptyDict),
     StoredTurn(Turn("user", EmptyText, NoneVal, "general"), Now, EmptyDict),
     StoredTurn(Turn("user", <<"q">>, "", "general"), "", EmptyDict),
     StoredTurn(Turn("assistant", <<"a">>, "img1", NoneVal), "t2", AskMetadata("pointing")),
     StoredTurn(Turn("assistant", NoneText, "img2", NoneVal), Now, EmptyDict),
     StoredTurn(Turn("assistant", <<"N", "o", "n", "e">>, NoneVal, NoneVal), "t1",
                Metadata({"thinking"}, <<"h">>, NoneVal, NoneVal))}

StoredMemories ==
    {[turns |-> t, current_image |-> i, max_turns |-> DefaultMaxTurns] :
        t \in UNION {[1..n -> StoredTurns] : n \in 0..MaxStored},
        i \in {NoneVal, "img1"}}

InitRoundTrip ==
    /\ memory \in StoredMemories
    /\ appended = memory.turns
    /\ file = NoFile
    /\ chat_pc = "idle"
    /\ chat_call = NoCall
    /\ chat_result = NoResult
    /\ last_op = "init"
    /\ PipeOff
    /\ GroqOff
    /\ FnOff
    /\ BackOff

NextRoundTrip ==
    \/ Save
    \/ Load
    \/ LoadMissing
    \/ Clear
    \/ \E i \in Images : SetImage(i)

SpecRoundTrip == InitRoundTrip /\ [][NextRoundTrip]_vars

\* Memories a saved file is loaded into.
LoadTargets ==
    {NewMemory(DefaultMaxTurns),
     [turns |-> <<Turn("user", <<"r">>, "img2", "general")>>,
      current_image |-> "img2", max_turns |-> 1]}

\* C22: whatever the memory holds, the file save writes, loaded into any
\* memory, gives that memory a turn list equal to the saved one, in order and
\* in role, content, image_path, task, timestamp and metadata of every turn,
\* and the saved current_image; and load gives the memory what the file holds.
C22_SaveThenLoadRoundTrip ==
    /\ [][last_op' = "save" =>
            \A m \in LoadTargets \cup {memory, clear(memory)} :
                /\ load(m, file').turns = memory.turns
                /\ load(m, file').current_image = memory.current_image]_vars
    /\ [][last_op' = "load" =>
            /\ memory'.turns = load(NewMemory(0), file).turns
            /\ memory'.current_image = load(NewMemory(0), file).current_image]_vars

\* A memory that was saved, then cleared and given another image, holds its
\* two saved turns again after load: one without content, one with metadata.
C22_Witness ==
    /\ last_op = "load"
    /\ file = FileOf(SavedRecord(memory))
    /\ Len(memory.turns) = 2
    /\ memory.turns[1].content = NoneText
    /\ memory.turns[2].metadata.keys # {}
    /\ memory.turns[2].timestamp = "t2"
    /\ memory.current_image = NoneVal

----------------------------------------------------------------------------
(* Claims about current_image *)

\* The turn the last add call handed to turns.append.
LastAppended == appended'[Len(appended')]

\* C23: add_user_turn with an image makes it the current image and stores it
\* on the turn; without an image it leaves the current image as it is and
\* stores that one on the turn; add_assistant_turn leaves the current image
\* as it is and stores it on the turn. Trimming never touches current_image.
C23_CurrentImageTracking ==
    /\ [][\A c \in MemPrompts, i \in OptImages, t \in MemTasks :
            AddUserTurn(c, i, t) =>
                IF Truthy(i)
                THEN /\ memory'.current_image = i
                     /\ LastAppended.image_path = i
                ELSE /\ memory'.current_image = memory.current_image
                     /\ LastAppended.image_path = memory.current_image]_vars
    /\ [][\A c \in MemAnswers :
            AddAssistantTurn(c) =>
                /\ memory'.current_image = memory.current_image
                /\ LastAppended.image_path = memory.current_image]_vars

\* The user turn that supplied img1 has been trimmed away and the assistant
\* turn added after it carries img1, which is still the current image.
C23_Witness ==
    /\ last_op = "add_assistant_turn"
    /\ Len(appended) = 2
    /\ appended[1].role = "user"
    /\ memory.turns = <<appended[2]>>
    /\ memory.current_image = "img1"
    /\ appended[2].image_path = "img1"


----------------------------------------------------------------------------
(* backend.py : the session routes *)

SessionNotFound ==
    <<"S", "e", "s", "s", "i", "o", "n", " ", "n", "o", "t", " ", "f",
      "o", "u", "n", "d">>

\* A reset that keeps the current image.
ResetKeepImage(m) == [m EXCEPT !.turns = << >>]

\* MultiTurnInference.reset
reset(m) == clear(m)

\* The list get_history builds from the turns of a session.
History(m) == [i \in 1..Len(m.turns) |-> DumpTurn(m.turns[i])]

\* Session objects the routes may create in one run.
MaxObjects == 3

\* POST /api/session; uuid4 gives an id the store does not hold.
CreateSession ==
    /\ Len(heap) < MaxObjects
    /\ IF ~model_loaded
       THEN /\ reply' = Reply("create_session", NoneVal, 503, ModelNotInitialized,
                              NoneVal, NoneVal, << >>)
            /\ UNCHANGED <<sessions, heap>>
       ELSE \E session_id \in SessionIds :
              /\ sessions[session_id] = NoObject
              /\ heap' = Append(heap, NewMemory(DefaultMaxTurns))
              /\ sessions' = [sessions EXCEPT ![session_id] = Len(heap) + 1]
              /\ reply' = Reply("create_session", NoneVal, 200, NoneText, NoneVal,
                                session_id, << >>)
    /\ UNCHANGED <<model_loaded, cuda, inference_lock, req, trace>>
    /\ UNCHANGED <<memvars, pipevars, groqvars, fnvars>>

\* A delete that empties the whole store.
DeleteEverySession(session_id) ==
    /\ sessions' = [s \in SessionIds |-> NoObject]
    /\ reply' = IF sessions[session_id] # NoObject
                THEN Reply("delete_session", session_id, 200, NoneText, "deleted",
                           NoneVal, << >>)
                ELSE Reply("delete_session", session_id, 404, SessionNotFound,
                           NoneVal, NoneVal, << >>)
    /\ UNCHANGED <<model_loaded, cuda, heap, inference_lock, req, trace>>
    /\ UNCHANGED <<memvars, pipevars, groqvars, fnvars>>

\* DELETE /api/session/<session_id>
DeleteSession(session_id) ==
    /\ IF sessions[session_id] # NoObject
       THEN /\ sessions' = [sessions EXCEPT ![session_id] = NoObject]
            /\ reply' = Reply("delete_session", session_id, 200, NoneText, "deleted",
                              NoneVal, << >>)
       ELSE /\ sessions' = sessions
            /\ reply' = Reply("delete_session", session_id, 404, SessionNotFound,
                              NoneVal, NoneVal, << >>)
    /\ UNCHANGED <<model_loaded, cuda, heap, inference_lock, req, trace>>
    /\ UNCHANGED <<memvars, pipevars, groqvars, fnvars>>

\* POST /api/session/<session_id>/reset
ResetSession(session_id) ==
    /\ IF sessions[session_id] # NoObject
       THEN /\ heap' = [heap EXCEPT ![sessions[session_id]] = reset(@)]
            /\ reply' = Reply("reset_session", session_id, 200, NoneText, "reset",
                              NoneVal, << >>)
       ELSE /\ heap' = heap
            /\ reply' = Reply("reset_session", session_id, 404, SessionNotFound,
                              NoneVal, NoneVal, << >>)
    /\ UNCHANGED <<model_loaded, cuda, sessions, inference_lock, req, trace>>
    /\ UNCHANGED <<memvars, pipevars, groqvars, fnvars>>

\* GET /api/history/<session_id>
GetHistory(session_id) ==
    /\ reply' = IF sessions[session_id] # NoObject
                THEN Reply("get_history", session_id, 200, NoneText, NoneVal,
                           NoneVal, History(heap[sessions[session_id]]))
                ELSE Reply("get_history", session_id, 404, SessionNotFound,
                           NoneVal, NoneVal, << >>)
    /\ UNCHANGED <<model_loaded, cuda, sessions, heap, inference_lock, req, trace>>
    /\ UNCHANGED <<memvars, pipevars, groqvars, fnvars>>

(* Inputs of the session route runs *)

\* The memories the sessions hold when the runs begin.
SessionMemories == {m \in StoredMemories : Len(m.turns) <= 1}

IdOrder == <<"s1", "s2">>

\* The place in the heap of the object of the i-th id, the ids in present
\* having been created in order.
PlaceOf(present, i) == Cardinality({j \in 1..i : IdOrder[j] \in present})

\* The store holding the ids in present.
StoreOf(present) ==
    [s \in SessionIds |->
        IF s \in present
        THEN PlaceOf(present, CHOOSE i \in 1..Len(IdOrder) : IdOrder[i] = s)
        ELSE NoObject]

\* The ids of the store in the order of their objects.
HeldIds(present) ==
    [k \in 1..Cardinality(present) |->
        CHOOSE s \in present : StoreOf(present)[s] = k]

InitSessions ==
    /\ memory = NewMemory(MaxTurns)
    /\ appended = << >>
    /\ file = NoFile
    /\ chat_pc = "idle"
    /\ chat_call = NoCall
    /\ chat_result = NoResult
    /\ last_op = "init"
    /\ PipeOff
    /\ GroqOff
    /\ FnOff
    /\ model_loaded \in BOOLEAN
    /\ cuda = FALSE
    /\ \E present \in SUBSET SessionIds :
         /\ sessions = StoreOf(present)
         /\ \E held \in [present -> SessionMemories] :
              heap = [k \in 1..Cardinality(present) |-> held[HeldIds(present)[k]]]
    /\ inference_lock = NoHolder
    /\ req = [r \in Reqs |-> Request("off", NoData, NoneVal, NoObject, "none", NoResponse)]
    /\ trace = [r \in Reqs |-> << >>]
    /\ reply = NoReply

NextSessions ==
    \/ CreateSession
    \/ \E session_id \in SessionIds : DeleteSession(session_id)
    \/ \E session_id \in SessionIds : ResetSession(session_id)
    \/ \E session_id \in SessionIds : GetHistory(session_id)

SpecSessions == InitSessions /\ [][NextSessions]_vars


----------------------------------------------------------------------------
(* Claims about the session routes *)

\* Memory m has no turns and no current image, its history is the empty
\* list and its context prompt the empty string.
Cleared(m) ==
    /\ m.turns = << >>
    /\ m.current_image = NoneVal
    /\ History(m) = << >>
    /\ \A include_images \in BOOLEAN : get_context_prompt(m, include_images) = EmptyText

\* C24: clear leaves any memory without turns and without current image,
\* and so does a reset of a session in the store; the history of the session
\* is then the empty list and get_context_prompt returns the empty string.
C24_ClearedMemoryIsEmpty ==
    /\ [](\A k \in 1..Len(heap) : Cleared(clear(heap[k])))
    /\ [][\A session_id \in SessionIds :
            (sessions[session_id] # NoObject /\ ResetSession(session_id)) =>
                /\ Cleared(heap'[sessions[session_id]])
                /\ reply'.status = 200
                /\ reply'.state = "reset"]_vars

\* Session s1 has been reset and is empty, while s2 still holds a turn.
C24_Witness ==
    /\ reply.route = "reset_session"
    /\ reply.session_id = "s1"
    /\ reply.status = 200
    /\ Cleared(heap[sessions["s1"]])
    /\ sessions["s2"] # NoObject
    /\ heap[sessions["s2"]].turns # << >>
    /\ heap[sessions["s2"]].current_image = "img1"

\* C27: delete, reset and history for an id the store does not hold answer
\* 404 "Session not found" and change neither the store nor any session;
\* delete of an id the store holds removes that id and nothing else.
C27_UnknownSessionNotFound ==
    /\ [][\A session_id \in SessionIds :
            (/\ sessions[session_id] = NoObject
             /\ \/ DeleteSession(session_id)
                \/ ResetSession(session_id)
                \/ GetHistory(session_id)) =>
                /\ reply'.status = 404
                /\ reply'.error = SessionNotFound
                /\ sessions' = sessions
                /\ heap' = heap]_vars
    /\ [][\A session_id \in SessionIds :
            (sessions[session_id] # NoObject /\ DeleteSession(session_id)) =>
                /\ sessions' = [sessions EXCEPT ![session_id] = NoObject]
                /\ heap' = heap
                /\ reply'.status = 200
                /\ reply'.state = "deleted"]_vars

\* A delete of s2, which the store does not hold, was answered 404 and s1 is
\* still there with its turn.
C27_Witness ==
    /\ reply.route = "delete_session"
    /\ reply.session_id = "s2"
    /\ reply.status = 404
    /\ reply.error = SessionNotFound
    /\ sessions["s2"] = NoObject
    /\ sessions["s1"] # NoObject
    /\ heap[sessions["s1"]].turns # << >>


----------------------------------------------------------------------------
(* Claim about load of a missing file *)

\* C25: a load while the file does not exist raises FileNotFoundError and
\* leaves turns and current_image as they were.
C25_LoadOfMissingFileChangesNothing ==
    [][(~file.exists /\ last_op' \in {"load", "load_failed"}) =>
          /\ LoadFile(memory, file).raised = FileNotFoundError
          /\ last_op' = "load_failed"
          /\ memory'.turns = memory.turns
          /\ memory'.current_image = memory.current_image]_vars

\* A memory with a turn and a current image after a load that failed.
C25_Witness ==
    /\ last_op = "load_failed"
    /\ ~file.exists
    /\ memory.turns # << >>
    /\ memory.current_image = "img1"


----------------------------------------------------------------------------
(* Claim about a chat turn without an image *)

\* Request r carries a message, a task other than general and no image, and
\* its session has no current image.
TurnWithoutImage(r) ==
    /\ req[r].task # "general"
    /\ req[r].data.message # NoneText
    /\ ~Truthy(req[r].data.image)
    /\ ~Truthy(heap[req[r].chat_session].current_image)

\* C26: such a chat turn gets the "No image set" error as its result,
\* model.inference is not called for it and the memory of every session
\* stays as it was.
C26_NoImageNoInference ==
    [][\A r \in Reqs :
         (ChatEnter(r) /\ TurnWithoutImage(r)) =>
             /\ req'[r].pc = "respond"
             /\ req'[r].response.result = AskResult(NoImageError, FALSE, EmptyText, -1)
             /\ heap' = heap
             /\ Ops(r)' = Ops(r) \o (IF cuda THEN <<"empty_cache">> ELSE << >>)
                                 \o <<"ask_call", "ask_return">>
                                 \o (IF cuda THEN <<"empty_cache">> ELSE << >>)]_vars

\* A pointing request was answered with the error while its session has no
\* turn and no image.
C26_Witness ==
    \E r \in Reqs :
        /\ req[r].pc = "done"
        /\ req[r].response.status = 200
        /\ req[r].response.error = NoImageError
        /\ req[r].response.task = "pointing"
        /\ sessions["s1"] # NoObject
        /\ heap[sessions["s1"]].turns = << >>
        /\ heap[sessions["s1"]].current_image = NoneVal


----------------------------------------------------------------------------
(* scripts/smart_chat.py : parse_coordinates, and the parser runs *)

\* parse_coordinates: the list of coordinates, or << >> for None.
parse_coordinates(answer, task) ==
    IF answer = NoneText THEN << >>
    ELSE IF task = "pointing" THEN FloatTuples(PointMatches(answer))
    ELSE IF task = "affordance" \/ task = "grounding"
         THEN BoxesOrPointBoxes(answer, FindAll(answer, 1, 4, "[", "]"))
    ELSE IF task = "trajectory"
         THEN PairsOrPoints(answer, FindAll(answer, 1, 2, "[", "]"))
    ELSE << >>

\* A call of a parser returns coords.
Parsed(op, coords) ==
    /\ parse_op = "call"
    /\ parse_op' = op
    /\ parse_result' = coords
    /\ UNCHANGED <<context, parse_task, parse_answer>>
    /\ UNCHANGED <<memvars, pipevars, backvars, groqvars>>

\* PipelineExecutor._parse_coordinates(answer, task)
ParseCoordinatesPipeline ==
    Parsed("_parse_coordinates", ParseCoordinates(parse_answer, parse_task))

\* smart_chat.parse_coordinates(answer, task)
ParseCoordinatesSmart ==
    Parsed("parse_coordinates", parse_coordinates(parse_answer, parse_task))

(* Inputs of the parser runs *)

\* Pieces of text an answer is put together from.
MaxPieces == 2

\* A piece: its text, what it writes down and the numbers in it (in units
\* of 1/Scale).
Piece(text, kind, value) == [text |-> text, kind |-> kind, value |-> value]

Pieces ==
    {Piece(
        <<"[", "1", "0", ",", " ", "2", "0", ",", " ", "1", "1", "0",
          ",", " ", "2", "2", "0", "]">>,
        "box", <<1000, 2000, 11000, 22000>>),
     Piece(
        <<"[", "1", ".", "5", " ", ",", "2", ",", "3", ",", "4", "]">>,
        "box", <<150, 200, 300, 400>>),
     Piece(
        <<"[", "1", ",", "1", "]">>,
        "pair", <<100, 100>>),
     Piece(
        <<"[", "2", " ", ",", " ", "2", "]">>,
        "pair", <<200, 200>>),
     Piece(
        <<"(", "0", ".", "5", ",", " ", "0", ".", "5", ")">>,
        "point", <<50, 50>>),
     Piece(
        <<"(", "4", "0", ",", "5", "0", ")">>,
        "point", <<4000, 5000>>),
     Piece(
        <<"(", " ", "3", " ", ",", " ", "4", " ", ")">>,
        "spaced point", <<300, 400>>),
     Piece(
        <<"t", "h", "e", " ", "d", "o", "o", "r">>,
        "words", << >>)}

PieceSeqs == UNION {[1..n -> Pieces] : n \in 0..MaxPieces}

Then ==
    <<" ", "t", "h", "e", "n", " ">>

\* The answer made of the pieces ps.
AnswerOfPieces(ps) == Join([i \in 1..Len(ps) |-> ps[i].text], Then)

TheBoxIsAt ==
    <<"t", "h", "e", " ", "b", "o", "x", " ", "i", "s", " ", "a", "t",
      " ", "[", "1", "0", ",", " ", "2", "0", ",", " ", "1", "1", "0",
      ",", " ", "2", "2", "0", "]">>

GoToThreePoints ==
    <<"g", "o", " ", "t", "o", " ", "[", "1", ",", "1", "]", " ", "t",
      "h", "e", "n", " ", "[", "2", ",", "2", "]", " ", "t", "h", "e",
      "n", " ", "[", "3", ",", "3", "]">>

PointHalfHalf ==
    <<"p", "o", "i", "n", "t", " ", "(", "0", ".", "5", ",", " ", "0",
      ".", "5", ")">>

ParserAnswers ==
    {AnswerOfPieces(ps) : ps \in PieceSeqs}
      \cup {TheBoxIsAt, GoToThreePoints, PointHalfHalf, NoneText}

InitParse ==
    /\ memory = NewMemory(MaxTurns)
    /\ appended = << >>
    /\ file = NoFile
    /\ chat_pc = "idle"
    /\ chat_call = NoCall
    /\ chat_result = NoResult
    /\ last_op = "init"
    /\ PipeOff
    /\ GroqOff
    /\ BackOff
    /\ context = EmptyText
    /\ parse_op = "call"
    /\ parse_task \in Tasks
    /\ parse_answer \in ParserAnswers
    /\ parse_result = << >>

NextParse ==
    \/ ParseCoordinatesPipeline
    \/ ParseCoordinatesSmart

SpecParse == InitParse /\ [][NextParse]_vars

----------------------------------------------------------------------------
(* Claims about the coordinate parsers *)

\* A parser has run.
ParserRan == parse_op \in {"_parse_coordinates", "parse_coordinates"}

\* The numbers of the pieces of ps that are of one of the kinds, in order.
Written(ps, kinds) ==
    [i \in 1..Len(SelectSeq(ps, LAMBDA p : p.kind \in kinds)) |->
        SelectSeq(ps, LAMBDA p : p.kind \in kinds)[i].value]

\* The boxes of half-width 30 around the points.
Around(points) ==
    [i \in 1..Len(points) |->
        <<points[i][1] - 30 * Scale, points[i][2] - 30 * Scale,
          points[i][1] + 30 * Scale, points[i][2] + 30 * Scale>>]

\* The pieces keep their brackets and parentheses next to the numbers.
Unspaced(ps) == \A i \in 1..Len(ps) : ps[i].kind # "spaced point"

\* C28: for grounding and affordance the parsers return the bracketed boxes
\* of the answer in their order when there is one, whatever parenthesized
\* points the answer has, and otherwise the box of half-width 30 around each
\* parenthesized point, in order.
C28_BoxesThenPointBoxes ==
    (ParserRan /\ parse_task \in {"grounding", "affordance"}) =>
        /\ \A ps \in PieceSeqs :
             (Unspaced(ps) /\ parse_answer = AnswerOfPieces(ps)) =>
                 parse_result =
                     IF Written(ps, {"box"}) # << >>
                     THEN Written(ps, {"box"})
                     ELSE Around(Written(ps, {"point"}))
        /\ parse_answer = TheBoxIsAt =>
             parse_result = <<<<1000, 2000, 11000, 22000>>>>

\* A grounding answer with a point before a box gave the box alone.
C28_Witness ==
    /\ ParserRan
    /\ parse_task = "grounding"
    /\ \E ps \in PieceSeqs :
         /\ Len(ps) = 2
         /\ ps[1].kind = "point"
         /\ ps[2].kind = "box"
         /\ parse_answer = AnswerOfPieces(ps)
         /\ parse_result = <<ps[2].value>>

\* C29: for trajectory the pipeline parser returns the bracketed pairs of
\* the answer in their order when there is one, whatever parenthesized pairs
\* the answer has, and otherwise the parenthesized pairs in their order.
C29_BracketedPairsThenPoints ==
    (parse_op = "_parse_coordinates" /\ parse_task = "trajectory") =>
        /\ \A ps \in PieceSeqs :
             (Unspaced(ps) /\ parse_answer = AnswerOfPieces(ps)) =>
                 parse_result =
                     IF Written(ps, {"pair"}) # << >>
                     THEN Written(ps, {"pair"})
                     ELSE Written(ps, {"point"})
        /\ parse_answer = GoToThreePoints =>
             parse_result = <<<<100, 100>>, <<200, 200>>, <<300, 300>>>>

\* The three waypoints of the example came back in the order of the text.
C29_Witness ==
    /\ parse_op = "_parse_coordinates"
    /\ parse_task = "trajectory"
    /\ parse_answer = GoToThreePoints
    /\ parse_result = <<<<100, 100>>, <<200, 200>>, <<300, 300>>>>

\* C30: for pointing the pipeline parser returns one point for every
\* parenthesized pair of the answer, also when there is whitespace after
\* "(", around the comma or before ")", and nothing for bracketed pairs.
C30_PointsWithWhitespace ==
    (parse_op = "_parse_coordinates" /\ parse_task = "pointing") =>
        /\ \A ps \in PieceSeqs :
             parse_answer = AnswerOfPieces(ps) =>
                 parse_result = Written(ps, {"point", "spaced point"})
        /\ parse_answer = PointHalfHalf => parse_result = <<<<50, 50>>>>


\* The kinds of piece the patterns of a task find.
KindsOf(task) ==
    CASE task = "pointing" -> {"point"}
      [] task \in {"grounding", "affordance"} -> {"box", "point"}
      [] task = "trajectory" -> {"pair", "point"}
      [] OTHER -> {}

\* C31: a parser call changes nothing but its result, which is the value of
\* the function at (answer, task); for the task general and for an answer
\* with nothing the patterns of the task find the result is None, no call
\* raises, and the step of such an answer is recorded as a success without
\* coordinates.
C31_NoGeometryIsNotAnError ==
    /\ [][parse_op' # parse_op =>
            /\ parse_result' \in {ParseCoordinates(parse_answer, parse_task),
                                  parse_coordinates(parse_answer, parse_task)}
            /\ parse_result' = ParseCoordinates(parse_answer', parse_task')
            /\ UNCHANGED <<memvars, pipevars, backvars, groqvars, context,
                           parse_task, parse_answer>>]_vars
    /\ [](ParserRan =>
            \A ps \in PieceSeqs :
                (/\ Unspaced(ps)
                 /\ parse_answer = AnswerOfPieces(ps)
                 /\ Written(ps, KindsOf(parse_task)) = << >>) =>
                    /\ parse_result = << >>
                    /\ \A rendered \in BOOLEAN :
                         \E out \in {StepOfAnswer(1, parse_task, <<"q">>,
                                                  parse_answer, rendered)} :
                            /\ out.step_result.success
                            /\ ~out.failed
                            /\ out.step_result.coordinates = << >>
                            /\ out.step_result.visualization = << >>)
    /\ [](ParserRan /\ parse_answer = NoneText => parse_result = << >>)

\* A grounding answer of words and a bracketed pair gave no geometry.
C31_Witness ==
    /\ ParserRan
    /\ parse_task = "grounding"
    /\ \E ps \in PieceSeqs :
         /\ Len(ps) = 2
         /\ ps[1].kind = "words"
         /\ ps[2].kind = "pair"
         /\ parse_answer = AnswerOfPieces(ps)
    /\ parse_result = << >>


----------------------------------------------------------------------------
(* backend.py : chat requests run together with the session routes *)

\* The chat requests of these runs all name session s1.
RaceRequests == {ChatData("s1", NoneVal, <<"q">>, "img1", "general")}

InitRace == InitBackend /\ model_loaded /\ ~cuda

NextRace ==
    \/ \E r \in Reqs : ChatStep(r, RaceRequests)
    \/ \E session_id \in SessionIds : ResetSession(session_id)
    \/ \E session_id \in SessionIds : DeleteSession(session_id)

SpecRace == InitRace /\ [][NextRace]_vars

----------------------------------------------------------------------------
(* Claims about requests that run together *)

\* The requests whose ask has appended the user turn and not yet the
\* assistant turn, on the object the store holds for session_id.
Asking(session_id) ==
    {r \in Reqs : req[r].pc = "infer" /\ req[r].chat_session = sessions[session_id]}

\* C32: no reset of a session runs while a chat request of that session is
\* between the append of its user turn and the append of its assistant turn,
\* so no memory is left with an assistant turn alone.
C32_ResetNeverInsideAChatTurn ==
    /\ [][\A session_id \in SessionIds :
            (sessions[session_id] # NoObject /\ ResetSession(session_id)) =>
                Asking(session_id) = {}]_vars
    /\ [](\A k \in 1..Len(heap) :
            heap[k].turns # << >> => heap[k].turns[1].role = "user")


\* The requests that have been answered with an answer of the model.
Answered ==
    {r \in Reqs : /\ req[r].pc = "done"
                  /\ req[r].response.result.has_answer
                  /\ req[r].response.result.error = NoneText}

\* Every request has been answered by ask and no session route has been
\* called.
ChatsAlone ==
    /\ \A r \in Reqs : req[r].pc = "done" /\ req[r].response.status = 200
    /\ reply = NoReply

\* C35: chat requests that carry the id of a session the store does not
\* hold create it, and all of them work on one object: once they are over
\* the store holds a session for the id and its memory holds the user turn
\* and the assistant turn of every request that was answered.
C35_OneSessionForConcurrentChats ==
    ChatsAlone =>
        /\ sessions["s1"] # NoObject
        /\ Len(heap[sessions["s1"]].turns) = 2 * Cardinality(Answered)

\* C36: a chat request that runs together with a delete of its session
\* never fails in the lookup of the session: it is bound to the object the
\* store held or to one it created.
C36_ChatNeverFailsOnLookup ==
    [][\A r \in Reqs :
         ChatBind(r) =>
             /\ req'[r].pc = "wait"
             /\ req'[r].chat_session # NoObject
             /\ req'[r].chat_session \in 1..Len(heap)]_vars


----------------------------------------------------------------------------
(* scripts/conversation_memory.py : the prompt ask hands to model.inference *)

\* full_prompt of ask (use_context is True): the context of the memory as
\* it is before the user turn is added, a newline and the prompt.
FullPrompt(m, prompt) ==
    IF Len(m.turns) > 0
    THEN get_context_prompt(m, TRUE) \o <<"\n">> \o prompt
    ELSE prompt

\* The answers of the steps recorded so far that are longer than the limit.
LongEarlierAnswers ==
    {results.steps[k].answer : k \in {j \in 1..Len(results.steps) :
        /\ results.steps[j].answer # NoneText
        /\ Len(results.steps[j].answer) > ContextLimit}}

\* C33: when a step whose prompt has no placeholder calls ask, the text
\* handed to model.inference holds no more than the first 200 characters of
\* the answer of any earlier step.
C33_InferencePromptBounded ==
    [][\A enh \in EnhanceOutcomes :
         (/\ PipeStepBegin(enh)
          /\ exec_pc' = "ask"
          /\ ~Contains(pipeline[step_i].prompt, Placeholder)) =>
             \A a \in LongEarlierAnswers :
                ~Contains(FullPrompt(memory, cur_prompt'),
                          PySliceTo(a, ContextLimit + 1))]_vars


----------------------------------------------------------------------------
(* Claim about an ask whose inference raises *)

\* C34: whatever the memory holds when ask is called, a raise of the
\* inference of that call gives back the turn list of before the call.
C34_RaisedAskRestoresTurns ==
    [][last_op' = "ask_started" =>
          \A detail \in ErrDetails :
             AskEnd(memory', chat_call', ModelRaises(detail)).mem.turns = memory.turns]_vars


----------------------------------------------------------------------------
(* Claim about the length of the pipeline *)

\* C37: whatever the completion call does or returns, the pipeline that
\* decompose returns has at least one step.
C37_PipelineNeverEmpty ==
    groq_op = "decompose" => Len(decomposed) >= 1


----------------------------------------------------------------------------
(* Loads that fail *)

\* The object of a turn without the given keys.
Without(j, keys) == JsonObject([k \in (DOMAIN j.value) \ keys |-> j.value[k]])

\* Files some other program wrote: their last turn lacks "role", "content"
\* or both.
DefectiveFiles ==
    {[FileOf(SavedRecord(m)) EXCEPT
         !.turns[Len(m.turns)] = Without(@, keys)] :
        m \in {sm \in StoredMemories : Len(sm.turns) = 1},
        keys \in {{"role"}, {"content"}, {"role", "content", "task"}}}

\* Files this memory class wrote.
SavedFiles == {FileOf(SavedRecord(m)) : m \in {sm \in StoredMemories : Len(sm.turns) <= 1}}

\* The memories the loads start from.
LoadingMemories ==
    {m \in StoredMemories :
        Len(m.turns) = 0 \/ (Len(m.turns) = 1 /\ m.turns[1].role = "user")}

InitLoad ==
    /\ memory \in LoadingMemories
    /\ appended = memory.turns
    /\ file \in {NoFile} \cup SavedFiles \cup DefectiveFiles
    /\ chat_pc = "idle"
    /\ chat_call = NoCall
    /\ chat_result = NoResult
    /\ last_op = "init"
    /\ PipeOff
    /\ GroqOff
    /\ FnOff
    /\ BackOff

NextLoad ==
    \/ Load
    \/ LoadMissing
    \/ LoadDefective

SpecLoad == InitLoad /\ [][NextLoad]_vars

\* C38: a load that raises, whatever the reason, leaves turns and
\* current_image as they were before the call.
C38_FailedLoadChangesNothing ==
    [][last_op' = "load_failed" =>
          /\ memory'.turns = memory.turns
          /\ memory'.current_image = memory.current_image]_vars


----------------------------------------------------------------------------
(* Claim about the placeholder *)

\* C39: the prompt with which a step calls ask never holds the text
\* {previous_result}: it has been replaced before the call in every step.
C39_PlaceholderAlwaysSubstituted ==
    [][\A enh \in EnhanceOutcomes :
         (PipeStepBegin(enh) /\ exec_pc' = "ask") =>
             ~Contains(chat_call'.prompt, Placeholder)]_vars


----------------------------------------------------------------------------
(* scripts/interactive_chat.py : parse_coordinates *)

\* parse_coordinates of interactive_chat: the list of coordinates, or << >>
\* for None.
interactive_parse_coordinates(answer, task) ==
    IF answer = NoneText THEN << >>
    ELSE IF task = "pointing" THEN FloatTuples(PointMatches(answer))
    ELSE IF task = "affordance" \/ task = "grounding"
         THEN FloatTuples(FindAll(answer, 1, 4, "[", "]"))
    ELSE IF task = "trajectory"
         THEN PairsOrPoints(answer, FindAll(answer, 1, 2, "[", "]"))
    ELSE << >>

\* interactive_chat.parse_coordinates(answer, task)
ParseCoordinatesInteractive ==
    Parsed("interactive_chat.parse_coordinates",
           interactive_parse_coordinates(parse_answer, parse_task))

NextParsers ==
    \/ ParseCoordinatesPipeline
    \/ ParseCoordinatesSmart
    \/ ParseCoordinatesInteractive

SpecParsers == InitParse /\ [][NextParsers]_vars

\* C40: whichever of the three parsers ran, the other two give the same
\* coordinates, or None as well, for that answer and task.
C40_ParsersEquivalent ==
    parse_op \in {"_parse_coordinates", "parse_coordinates",
                  "interactive_chat.parse_coordinates"} =>
        /\ parse_result = ParseCoordinates(parse_answer, parse_task)
        /\ parse_result = parse_coordinates(parse_answer, parse_task)
        /\ parse_result = interactive_parse_coordinates(parse_answer, parse_task)

====
